---------------------------- MODULE Spec2Model ----------------------------
(***************************************************************************)
(* A model of the relevance-ranking engine and document loader of          *)
(* ArxivPaperNotation (src/matcher.py).                                    *)
(*                                                                         *)
(* Texts are sequences of one-character strings.  Python floats are        *)
(* modelled as fixed-point integers at a resolution of 1/FP; keyword       *)
(* weights are drawn from the integers.                                    *)
(***************************************************************************)
EXTENDS Integers, Sequences, FiniteSets, TLC

(***************************************************************************)
(* Bounds of the model.                                                    *)
(***************************************************************************)
MaxDocs == 2
MaxCalls == 2
MaxCats == 2
MaxRecords == 3

(***************************************************************************)
(* Program constants (src/matcher.py:30-34, 165).  K1 = 1.5 and B = 0.75   *)
(* are kept as fractions.                                                  *)
(***************************************************************************)
K1_NUM == 3
K1_DEN == 2
B_NUM == 3
B_DEN == 4
TITLE_WEIGHT == 3
OVERLAP_NUM == 1
OVERLAP_DEN == 10

\* Resolution of the fixed-point numbers that stand for Python floats.
FP == 10000

Max(a, b) == IF a >= b THEN a ELSE b
Min(a, b) == IF a <= b THEN a ELSE b

(***************************************************************************)
(* Characters and texts.                                                   *)
(***************************************************************************)
WordChars == {"a", "b", "c", "A", "B"}
SpaceChars == {" "}

\* str.lower() on one character
LowerChar(c) == CASE c = "A" -> "a" [] c = "B" -> "b" [] OTHER -> c

\* str.lower()
Lower(text) == [i \in 1..Len(text) |-> LowerChar(text[i])]

RECURSIVE SplitFrom(_, _, _)
\* str.split(): the maximal runs of non-whitespace characters from position i on,
\* cur being the run in progress
SplitFrom(text, i, cur) ==
    IF i > Len(text)
    THEN IF cur = <<>> THEN <<>> ELSE <<cur>>
    ELSE IF text[i] \in SpaceChars
         THEN (IF cur = <<>> THEN <<>> ELSE <<cur>>) \o SplitFrom(text, i + 1, <<>>)
         ELSE SplitFrom(text, i + 1, Append(cur, text[i]))

\* BM25Matcher._tokenize
Tokenize(text) == SplitFrom(Lower(text), 1, <<>>)

\* whether the character at position i (1-based) exists and is a \w character
WordAt(text, i) == i >= 1 /\ i <= Len(text) /\ text[i] \in WordChars

\* the regex assertion \b between positions p and p+1
Boundary(text, p) == WordAt(text, p) # WordAt(text, p + 1)

\* whether \b + re.escape(kw) + \b, compiled with re.IGNORECASE, matches at offset p
MatchAt(text, kw, p) ==
    /\ p + Len(kw) <= Len(text)
    /\ \A j \in 1..Len(kw) : LowerChar(text[p + j]) = LowerChar(kw[j])
    /\ Boundary(text, p)
    /\ Boundary(text, p + Len(kw))

RECURSIVE FindAll(_, _, _)
\* len(pattern.findall(text)): the non-overlapping matches, scanning from offset pos
FindAll(text, kw, pos) ==
    IF pos + Len(kw) > Len(text) THEN 0
    ELSE IF MatchAt(text, kw, pos)
         THEN 1 + FindAll(text, kw, pos + Max(Len(kw), 1))
         ELSE FindAll(text, kw, pos + 1)

\* BM25Matcher._count_keyword_matches
CountKeywordMatches(text, keyword) == FindAll(text, keyword, 0)


(***************************************************************************)
(* The relevance engine (class BM25Matcher).                               *)
(*                                                                         *)
(* A keyword entry is [kw, weight, numeric]: numeric = FALSE stands for a   *)
(* weight that is not a number (a string, None), whose weight field is not *)
(* read.  self.keywords is a dict, modelled as the sequence of its entries *)
(* in insertion order.                                                     *)
(***************************************************************************)
Entry(kw, weight, numeric) == [kw |-> kw, weight |-> weight, numeric |-> numeric]

\* the position of key kw in the ordered dict d, 0 when absent
RECURSIVE IndexOf(_, _, _)
IndexOf(d, kw, i) ==
    IF i > Len(d) THEN 0
    ELSE IF d[i].kw = kw THEN i ELSE IndexOf(d, kw, i + 1)

\* d[kw] = e.weight on an ordered dict: a present key keeps its position
DictSet(d, e) ==
    LET i == IndexOf(d, e.kw, 1)
    IN  IF i = 0 THEN Append(d, e) ELSE [d EXCEPT ![i] = e]

RECURSIVE NormalizeFrom(_, _, _, _)
\* the dict comprehensions of BM25Matcher.__init__: keys lowercased, a list's
\* terms given the weight 1.0
NormalizeFrom(form, items, i, d) ==
    IF i > Len(items) THEN d
    ELSE NormalizeFrom(form, items, i + 1,
            DictSet(d, IF form = "dict"
                       THEN Entry(Lower(items[i].kw), items[i].weight, items[i].numeric)
                       ELSE Entry(Lower(items[i].kw), 1, TRUE)))

\* a keyword map whose keys are taken as they are supplied
InitKeywordsAsGiven(cfg) ==
    [i \in 1..Len(cfg.items) |->
        IF cfg.form = "dict" THEN cfg.items[i]
        ELSE Entry(cfg.items[i].kw, 1, TRUE)]

\* self.keywords as BM25Matcher.__init__ builds it from its argument
InitKeywords(cfg) == NormalizeFrom(cfg.form, cfg.items, 1, <<>>)

\* self.keywords.keys()
Keys(kws) == {kws[i].kw : i \in 1..Len(kws)}

\* self.keyword_patterns: {kw: re.compile(r'\b' + re.escape(kw) + r'\b', ...)} for
\* the keys of self.keywords, a pattern given by the keyword it is compiled from
CompilePatterns(kws) == [k \in Keys(kws) |-> k]

\* {kw: 0 for kw in self.keywords.keys()}
ZeroFreq(kws) == [k \in Keys(kws) |-> 0]

\* f"{paper.title} {paper.summary}".lower()
CombinedText(paper) == Lower(paper.title \o <<" ">> \o paper.summary)

RECURSIVE TotalLen(_, _)
\* total_len after the statistics loop has visited papers[1..n]
TotalLen(papers, n) ==
    IF n = 0 THEN 0
    ELSE TotalLen(papers, n - 1) + Len(Tokenize(CombinedText(papers[n])))

\* the average length taken as it is, without max(x, 1)
AtLeastOneUnguarded(x) == x

\* the result of max(x, 1) for the float x = num / den
AtLeastOne(x) == IF x.num < x.den THEN [num |-> 1, den |-> 1] ELSE x

\* BM25Matcher._build_corpus_stats: the statistics it leaves in the engine
BuildCorpusStats(kws, papers) ==
    [doc_count |-> Len(papers),
     keyword_doc_freq |->
        [k \in Keys(kws) |->
            Cardinality({i \in 1..Len(papers) :
                            CountKeywordMatches(CombinedText(papers[i]), k) > 0})],
     avg_doc_len |-> [num |-> TotalLen(papers, Len(papers)),
                      den |-> Max(Len(papers), 1)]]

\* round(math.log(n) * FP) for n = 1..40
LnTable ==
    <<0, 6931, 10986, 13863, 16094, 17918, 19459, 20794, 21972, 23026,
      23979, 24849, 25649, 26391, 27081, 27726, 28332, 28904, 29444, 29957,
      30445, 30910, 31355, 31781, 32189, 32581, 32958, 33322, 33673, 34012,
      34340, 34657, 34965, 35264, 35553, 35835, 36109, 36376, 36636, 36889>>

\* math.log(p / q)
Ln(p, q) == LnTable[p] - LnTable[q]

\* self.keyword_doc_freq.get(keyword, 0)
DocFreq(freq, keyword) == IF keyword \in DOMAIN freq THEN freq[keyword] ELSE 0

\* max(math.log((self.doc_count - doc_freq + 0.5) / (doc_freq + 0.5) + 1), 0),
\* where (N - df + 0.5) / (df + 0.5) + 1 = (2N + 2) / (2df + 1)
Idf(count, doc_freq) == Max(Ln(2 * count + 2, 2 * doc_freq + 1), 0)

\* BM25Matcher._calculate_idf
CalculateIdf(stats, keyword) ==
    Idf(stats.doc_count, DocFreq(stats.keyword_doc_freq, keyword))

\* tf_normalized of BM25Matcher._calculate_bm25_score
TfNormalized(stats, tf, doc_len) ==
    LET avg == AtLeastOne(stats.avg_doc_len)
    IN  (tf * (K1_NUM + K1_DEN) * B_DEN * avg.num * FP)
        \div (tf * K1_DEN * B_DEN * avg.num
              + K1_NUM * ((B_DEN - B_NUM) * avg.num + B_NUM * doc_len * avg.den))

\* idf * tf_normalized * weight
ScoreTerm(idf, tf_normalized, weight) == ((idf * tf_normalized) \div FP) * weight

\* what a keyword with tf > 0 adds to the score of a text
Contribution(stats, e, tf, doc_len) ==
    ScoreTerm(CalculateIdf(stats, e.kw), TfNormalized(stats, tf, doc_len), e.weight)

RECURSIVE Bm25From(_, _, _, _, _, _)
\* the loop of BM25Matcher._calculate_bm25_score from keyword i on, acc being
\* (score, matched_keywords) so far; multiplying by a weight that is not a
\* number raises TypeError
Bm25From(kws, stats, text, doc_len, i, acc) ==
    IF i > Len(kws) THEN acc
    ELSE LET e == kws[i]
             tf == CountKeywordMatches(text, e.kw)
         IN  IF tf = 0 THEN Bm25From(kws, stats, text, doc_len, i + 1, acc)
             ELSE IF ~e.numeric
                  THEN [acc EXCEPT !.matched = Append(@, e.kw), !.err = TRUE]
                  ELSE Bm25From(kws, stats, text, doc_len, i + 1,
                          [acc EXCEPT !.score = @ + Contribution(stats, e, tf, doc_len),
                                      !.matched = Append(@, e.kw)])

RECURSIVE Bm25NoGuardFrom(_, _, _, _, _, _)
\* a scoring loop without the test tf > 0
Bm25NoGuardFrom(kws, stats, text, doc_len, i, acc) ==
    IF i > Len(kws) THEN acc
    ELSE LET e == kws[i]
             tf == CountKeywordMatches(text, e.kw)
         IN  IF ~e.numeric
             THEN [acc EXCEPT !.matched = Append(@, e.kw), !.err = TRUE]
             ELSE Bm25NoGuardFrom(kws, stats, text, doc_len, i + 1,
                     [acc EXCEPT !.score = @ + Contribution(stats, e, tf, doc_len),
                                 !.matched = Append(@, e.kw)])

CalculateBm25ScoreNoGuard(kws, stats, text, doc_len) ==
    Bm25NoGuardFrom(kws, stats, text, doc_len, 1,
                    [score |-> 0, matched |-> <<>>, err |-> FALSE])

\* score = 0.0; matched_keywords = []
NoScore == [score |-> 0, matched |-> <<>>, err |-> FALSE]

\* BM25Matcher._calculate_bm25_score
CalculateBm25Score(kws, stats, text, doc_len) ==
    Bm25From(kws, stats, text, doc_len, 1, NoScore)

Range(s) == {s[i] : i \in 1..Len(s)}

\* self.keywords.get(kw, 1.0)
WeightOf(kws, kw) ==
    LET i == IndexOf(kws, kw, 1) IN IF i = 0 THEN 1 ELSE kws[i].weight

RECURSIVE SumWeights(_, _)
\* sum(self.keywords.get(kw, 1.0) for kw in S)
SumWeights(kws, S) ==
    IF S = {} THEN 0
    ELSE LET k == CHOOSE x \in S : TRUE
         IN  WeightOf(kws, k) + SumWeights(kws, S \ {k})

\* total_score *= (1.0 + 0.1 * overlap_weight) when overlap is not empty
OverlapBonus(kws, total, overlap) ==
    IF overlap = {} THEN total
    ELSE (total * (OVERLAP_DEN + OVERLAP_NUM * SumWeights(kws, overlap))) \div OVERLAP_DEN

\* the details of a call of score_paper that raised
NoDetails ==
    [title_keywords |-> <<>>, abstract_keywords |-> <<>>, all_matched |-> {},
     title_score |-> 0, abstract_score |-> 0, keyword_weights |-> <<>>]

\* a score_paper that applies the title weight to the sum of the two field scores
ScorePaperBoostSum(kws, stats, paper) ==
    LET t == CalculateBm25Score(kws, stats, Lower(paper.title), Len(Tokenize(paper.title)))
        a == CalculateBm25Score(kws, stats, Lower(paper.summary), Len(Tokenize(paper.summary)))
        all_matched == Range(t.matched) \cup Range(a.matched)
        overlap == Range(t.matched) \cap Range(a.matched)
    IN  IF t.err \/ a.err
        THEN [err |-> TRUE, score |-> 0, details |-> NoDetails]
        ELSE [err |-> FALSE,
              score |-> OverlapBonus(kws, (t.score + a.score) * TITLE_WEIGHT, overlap),
              details |-> [title_keywords |-> t.matched,
                           abstract_keywords |-> a.matched,
                           all_matched |-> all_matched,
                           title_score |-> t.score * TITLE_WEIGHT,
                           abstract_score |-> a.score,
                           keyword_weights |-> [k \in all_matched |-> WeightOf(kws, k)]]]

\* a score_paper whose all_matched holds the title's keywords only
ScorePaperTitleMatched(kws, stats, paper) ==
    LET t == CalculateBm25Score(kws, stats, Lower(paper.title), Len(Tokenize(paper.title)))
        a == CalculateBm25Score(kws, stats, Lower(paper.summary), Len(Tokenize(paper.summary)))
        title_score == t.score * TITLE_WEIGHT
        all_matched == Range(t.matched)
        overlap == Range(t.matched) \cap Range(a.matched)
    IN  IF t.err \/ a.err
        THEN [err |-> TRUE, score |-> 0, details |-> NoDetails]
        ELSE [err |-> FALSE,
              score |-> OverlapBonus(kws, title_score + a.score, overlap),
              details |-> [title_keywords |-> t.matched,
                           abstract_keywords |-> a.matched,
                           all_matched |-> all_matched,
                           title_score |-> title_score,
                           abstract_score |-> a.score,
                           keyword_weights |-> [k \in all_matched |-> WeightOf(kws, k)]]]

\* score_paper from the results t and a of _calculate_bm25_score on the title
\* and on the summary
PaperScore(kws, t, a) ==
    LET title_score == t.score * TITLE_WEIGHT
        all_matched == Range(t.matched) \cup Range(a.matched)
        overlap == Range(t.matched) \cap Range(a.matched)
    IN  IF t.err \/ a.err
        THEN [err |-> TRUE, score |-> 0, details |-> NoDetails]
        ELSE [err |-> FALSE,
              score |-> OverlapBonus(kws, title_score + a.score, overlap),
              details |-> [title_keywords |-> t.matched,
                           abstract_keywords |-> a.matched,
                           all_matched |-> all_matched,
                           title_score |-> title_score,
                           abstract_score |-> a.score,
                           keyword_weights |-> [k \in all_matched |-> WeightOf(kws, k)]]]

\* BM25Matcher.score_paper: err when a TypeError leaves it
ScorePaper(kws, stats, paper) ==
    PaperScore(kws,
               CalculateBm25Score(kws, stats, Lower(paper.title),
                                  Len(Tokenize(paper.title))),
               CalculateBm25Score(kws, stats, Lower(paper.summary),
                                  Len(Tokenize(paper.summary))))

\* a filter that drops a score equal to the threshold
PassFilterStrict(score, threshold) == score > threshold

\* score >= threshold, the filter of BM25Matcher.match_papers
PassFilter(score, threshold) == score >= threshold

RECURSIVE ScoreLoopAssignAlways(_, _, _, _, _, _)
\* a scoring loop that assigns relevance_score before the filter
ScoreLoopAssignAlways(kws, stats, papers, threshold, j, scored) ==
    IF j > Len(papers) THEN [papers |-> papers, scored |-> scored, err |-> FALSE]
    ELSE LET s == ScorePaper(kws, stats, papers[j])
             assigned == [papers EXCEPT ![j].relevance_score = s.score]
         IN  IF s.err THEN [papers |-> papers, scored |-> scored, err |-> TRUE]
             ELSE IF s.score >= threshold
                  THEN ScoreLoopAssignAlways(kws, stats, assigned, threshold, j + 1,
                          Append(scored, [paper |-> j, details |-> s.details]))
                  ELSE ScoreLoopAssignAlways(kws, stats, assigned, threshold, j + 1, scored)

RECURSIVE ScoreLoop(_, _, _, _, _, _)
\* the scoring loop of BM25Matcher.match_papers from the j-th paper on; scored
\* holds (paper, details) pairs, a paper given by its place in papers.  A
\* TypeError from score_paper ends the loop and keeps what was assigned.
ScoreLoop(kws, stats, papers, threshold, j, scored) ==
    IF j > Len(papers) THEN [papers |-> papers, scored |-> scored, err |-> FALSE]
    ELSE LET s == ScorePaper(kws, stats, papers[j])
         IN  IF s.err THEN [papers |-> papers, scored |-> scored, err |-> TRUE]
             ELSE IF PassFilter(s.score, threshold)
                  THEN ScoreLoop(kws, stats,
                                 [papers EXCEPT ![j].relevance_score = s.score],
                                 threshold, j + 1,
                                 Append(scored, [paper |-> j, details |-> s.details]))
                  ELSE ScoreLoop(kws, stats, papers, threshold, j + 1, scored)

\* the sort key lambda x: x[0].relevance_score
SortKey(papers, x) == papers[x.paper].relevance_score

\* an insertion that puts x in front of the elements with an equal key
InsertDescBeforeEqual(papers, s, x) ==
    LET k == Cardinality({i \in 1..Len(s) : SortKey(papers, s[i]) > SortKey(papers, x)})
    IN  SubSeq(s, 1, k) \o <<x>> \o SubSeq(s, k + 1, Len(s))

\* x put into the descending sequence s behind every element whose key is
\* not smaller: the stable order list.sort(reverse=True) keeps
InsertDesc(papers, s, x) ==
    LET k == Cardinality({i \in 1..Len(s) : SortKey(papers, s[i]) >= SortKey(papers, x)})
    IN  SubSeq(s, 1, k) \o <<x>> \o SubSeq(s, k + 1, Len(s))

\* a sort that leaves the list as it is
SortDescUnsorted(papers, scored, n) == SubSeq(scored, 1, n)

RECURSIVE SortDesc(_, _, _)
\* scored_papers.sort(key=..., reverse=True), applied to scored[1..n]
SortDesc(papers, scored, n) ==
    IF n = 0 THEN <<>>
    ELSE InsertDesc(papers, SortDesc(papers, scored, n - 1), scored[n])

\* top_k is [none |-> TRUE] for None, else [none |-> FALSE, k |-> the integer]
NoTopK == [none |-> TRUE, k |-> 0]
TopK(k) == [none |-> FALSE, k |-> k]

\* a limit test that forgets top_k > 0
LimitedNotNone(top_k) == ~top_k.none

\* top_k is not None and top_k > 0
Limited(top_k) == ~top_k.none /\ top_k.k > 0

\* a truncation that keeps the last top_k entries
TruncateTail(scored, top_k) ==
    IF ~top_k.none /\ top_k.k > 0
    THEN SubSeq(scored, Max(Len(scored) - top_k.k, 0) + 1, Len(scored))
    ELSE scored

\* scored_papers[:top_k] when top_k limits
Truncate(scored, top_k) ==
    IF Limited(top_k) THEN SubSeq(scored, 1, Min(top_k.k, Len(scored))) ELSE scored

\* a match_papers that returns nothing when no keyword is configured
MatchPapersNoKeywords(kws, papers, threshold, top_k) ==
    LET stats == BuildCorpusStats(kws, papers)
        loop == ScoreLoop(kws, stats, papers, threshold, 1, <<>>)
    IN  [stats |-> stats,
         papers |-> loop.papers,
         outcome |-> IF loop.err THEN "TypeError" ELSE "ok",
         result |-> IF loop.err \/ kws = <<>> THEN <<>>
                    ELSE Truncate(SortDesc(loop.papers, loop.scored, Len(loop.scored)),
                                  top_k)]

\* BM25Matcher.match_papers: the statistics it leaves in the engine, the papers
\* with the scores it assigned, and the ranked list it returns ("ok") unless a
\* TypeError left it
MatchPapers(kws, papers, threshold, top_k) ==
    LET stats == BuildCorpusStats(kws, papers)
        loop == ScoreLoop(kws, stats, papers, threshold, 1, <<>>)
    IN  [stats |-> stats,
         papers |-> loop.papers,
         outcome |-> IF loop.err THEN "TypeError" ELSE "ok",
         result |-> IF loop.err THEN <<>>
                    ELSE Truncate(SortDesc(loop.papers, loop.scored, Len(loop.scored)),
                                  top_k)]

(***************************************************************************)
(* The document loader (load_papers_from_jsonl, load_papers_from_directory).*)
(*                                                                         *)
(* A line of a papers.jsonl file is one of                                 *)
(*   "blank"   empty after strip(),                                        *)
(*   "bad"     not valid JSON (json.loads raises JSONDecodeError),          *)
(*   "nonobj"  valid JSON that is not an object (a number, a list, ...),   *)
(*   "obj"     a JSON object, with or without the key "id".                *)
(* A category entry of the jsonl directory is "notdir" (not a directory),  *)
(* "nofile" (a directory without papers.jsonl) or "file".                  *)
(***************************************************************************)
\* Paper(id=..., title=..., summary=...): relevance_score defaults to 0.0
Paper(id, title, summary) ==
    [id |-> id, title |-> title, summary |-> summary, relevance_score |-> 0]

Line(kind, has_id, id, title) ==
    [kind |-> kind, has_id |-> has_id, id |-> id, title |-> title]

\* a conversion that gives a record without identifier an identifier made from
\* its title
ToPaperTitleAsId(line) ==
    Paper(IF line.has_id THEN line.id ELSE ToString(Len(line.title)), line.title, <<>>)

\* the Paper built from a JSON object: data.get('id', ''), data.get('title', '')
ToPaper(line) == Paper(IF line.has_id THEN line.id ELSE "", line.title, <<>>)

RECURSIVE JsonlFrom(_, _, _)
\* the loop of load_papers_from_jsonl from line i on.  data.get on a value
\* that is not a dict raises AttributeError, which the loop does not catch.
JsonlFrom(lines, i, acc) ==
    IF i > Len(lines) THEN acc
    ELSE CASE lines[i].kind = "blank" -> JsonlFrom(lines, i + 1, acc)
           [] lines[i].kind = "bad" ->
                 JsonlFrom(lines, i + 1, [acc EXCEPT !.diagnostics = @ + 1])
           [] lines[i].kind = "nonobj" -> [acc EXCEPT !.err = TRUE]
           [] OTHER ->
                 JsonlFrom(lines, i + 1,
                           [acc EXCEPT !.papers = Append(@, ToPaper(lines[i]))])

\* load_papers_from_jsonl
LoadPapersFromJsonl(lines) ==
    JsonlFrom(lines, 1, [err |-> FALSE, papers |-> <<>>, diagnostics |-> 0])

RECURSIVE ExtendFrom(_, _, _)
\* the loop over jsonl_dir.iterdir() of load_papers_from_directory, from entry c
\* on.  An AttributeError in a file ends the loop; what that file printed before
\* has been printed.
ExtendFrom(cats, c, acc) ==
    IF c > Len(cats) THEN acc
    ELSE IF cats[c].kind # "file" THEN ExtendFrom(cats, c + 1, acc)
         ELSE LET r == LoadPapersFromJsonl(cats[c].lines)
              IN  IF r.err THEN [acc EXCEPT !.err = TRUE,
                                            !.diagnostics = @ + r.diagnostics]
                  ELSE ExtendFrom(cats, c + 1,
                          [acc EXCEPT !.papers = @ \o r.papers,
                                      !.diagnostics = @ + r.diagnostics])

RECURSIVE UniqueKeepLast(_, _, _, _)
\* a deduplication in which a later record replaces the one seen before
UniqueKeepLast(papers, i, seen_ids, unique_papers) ==
    IF i > Len(papers) THEN unique_papers
    ELSE IF papers[i].id \notin seen_ids
         THEN UniqueKeepLast(papers, i + 1, seen_ids \cup {papers[i].id},
                             Append(unique_papers, papers[i]))
         ELSE UniqueKeepLast(papers, i + 1, seen_ids,
                 [j \in 1..Len(unique_papers) |->
                     IF unique_papers[j].id = papers[i].id THEN papers[i]
                     ELSE unique_papers[j]])

RECURSIVE Unique(_, _, _, _)
\* the deduplication loop: seen_ids and unique_papers after papers[i..]
Unique(papers, i, seen_ids, unique_papers) ==
    IF i > Len(papers) THEN unique_papers
    ELSE IF papers[i].id \notin seen_ids
         THEN Unique(papers, i + 1, seen_ids \cup {papers[i].id},
                     Append(unique_papers, papers[i]))
         ELSE Unique(papers, i + 1, seen_ids, unique_papers)

\* load_papers_from_directory: the collection it returns ("ok"), or the
\* AttributeError that leaves it
LoadPapersFromDirectory(st) ==
    IF ~st.exists THEN [outcome |-> "ok", papers |-> <<>>, diagnostics |-> 0]
    ELSE LET r == ExtendFrom(st.cats, 1,
                             [err |-> FALSE, papers |-> <<>>, diagnostics |-> 0])
         IN  IF r.err
             THEN [outcome |-> "AttributeError", papers |-> <<>>,
                   diagnostics |-> r.diagnostics]
             ELSE [outcome |-> "ok", papers |-> Unique(r.papers, 1, {}, <<>>),
                   diagnostics |-> r.diagnostics]

(***************************************************************************)
(* Inputs: the documents, keyword configurations, thresholds and top_k     *)
(* values the model draws from.                                            *)
(***************************************************************************)
\* the documents in storage, in load order
DocList ==
    << Paper("p1", <<"A", " ", "b">>, <<"c">>),
       Paper("p2", <<"c">>, <<"a", " ", "a">>),
       Paper("p3", <<"a">>, <<"a", " ", "c">>),
       Paper("p4", <<"a", "b">>, <<"c">>),
       Paper("p5", <<"c", " ", "a">>, <<"b">>),
       Paper("p6", <<>>, <<>>) >>

KeywordConfigs ==
    { [form |-> "list", items |-> <<>>],
      [form |-> "list", items |-> <<Entry(<<"a">>, 1, TRUE)>>],
      [form |-> "dict", items |-> <<Entry(<<"a">>, 2, TRUE), Entry(<<"b">>, 1, TRUE)>>],
      [form |-> "dict", items |-> <<Entry(<<"A", " ", "b">>, 1, TRUE), Entry(<<"a">>, 1, TRUE)>>],
      [form |-> "dict", items |-> <<Entry(<<"a">>, 0, TRUE)>>],
      [form |-> "dict", items |-> <<Entry(<<"a">>, -1, TRUE), Entry(<<"b">>, 1, TRUE)>>],
      [form |-> "dict", items |-> <<Entry(<<"b">>, 0, FALSE)>>] }

\* 0 and the default 0.5
Thresholds == {0, FP \div 2}

TopKs == {NoTopK, TopK(-1), TopK(0), TopK(1)}

RECURSIVE Ascending(_)
\* the elements of a set of numbers in ascending order
Ascending(S) ==
    IF S = {} THEN <<>>
    ELSE LET m == CHOOSE x \in S : \A y \in S : x <= y
         IN  <<m>> \o Ascending(S \ {m})

\* the collections of up to MaxDocs of the documents at the places D, each in
\* load order
PoolsOf(D) ==
    { [j \in 1..Cardinality(S) |-> DocList[Ascending(S)[j]]] :
        S \in { T \in SUBSET D : Cardinality(T) <= MaxDocs } }

Pools == PoolsOf(1..Len(DocList))

(***************************************************************************)
(* Configuration.  The value of an environment variable is a tuple of      *)
(* characters; a value parsed from it, or read from the YAML file, is a    *)
(* record that carries its Python type: the characters of a str, the items *)
(* of a list (values again) or of a dict (entries), the number of an int.  *)
(* json.loads is modelled on lists of strings, objects from strings to     *)
(* naturals, strings and naturals, none of whose strings holds a comma, a  *)
(* colon, a quote or a backslash.                                          *)
(***************************************************************************)
PyNone == [type |-> "none", chars |-> <<>>, items |-> <<>>, n |-> 0]
PyStr(chars) == [type |-> "str", chars |-> chars, items |-> <<>>, n |-> 0]
PyNum(k) == [type |-> "num", chars |-> <<>>, items |-> <<>>, n |-> k]
PyList(items) == [type |-> "list", chars |-> <<>>, items |-> items, n |-> 0]
PyDict(entries) == [type |-> "dict", chars |-> <<>>, items |-> entries, n |-> 0]

\* bool(v)
Truthy(v) ==
    CASE v.type = "none" -> FALSE
      [] v.type = "str" -> v.chars # <<>>
      [] v.type = "num" -> v.n # 0
      [] OTHER -> v.items # <<>>

RECURSIVE LStrip(_)
LStrip(s) == IF s # <<>> /\ s[1] \in SpaceChars THEN LStrip(Tail(s)) ELSE s

RECURSIVE RStrip(_)
RStrip(s) ==
    IF s # <<>> /\ s[Len(s)] \in SpaceChars THEN RStrip(SubSeq(s, 1, Len(s) - 1)) ELSE s

\* str.strip()
Strip(s) == RStrip(LStrip(s))

RECURSIVE SplitOnFrom(_, _, _, _)
\* str.split(ch) from position i on, cur being the part in progress
SplitOnFrom(s, ch, i, cur) ==
    IF i > Len(s) THEN <<cur>>
    ELSE IF s[i] = ch
         THEN <<cur>> \o SplitOnFrom(s, ch, i + 1, <<>>)
         ELSE SplitOnFrom(s, ch, i + 1, Append(cur, s[i]))

\* str.split(ch)
SplitOn(s, ch) == SplitOnFrom(s, ch, 1, <<>>)

DigitChars == <<"0", "1", "2", "3", "4", "5", "6", "7", "8", "9">>

DigitVal(c) == (CHOOSE i \in 1..Len(DigitChars) : DigitChars[i] = c) - 1

\* a JSON string token
IsJsonString(t) ==
    /\ Len(t) >= 2
    /\ t[1] = "\"" /\ t[Len(t)] = "\""
    /\ \A i \in 2..(Len(t) - 1) : t[i] \notin {"\"", "\\"}

\* the str a JSON string token denotes
StringOf(t) == SubSeq(t, 2, Len(t) - 1)

\* a JSON number token that denotes a natural
IsJsonNumber(t) ==
    /\ t # <<>>
    /\ \A i \in 1..Len(t) : t[i] \in Range(DigitChars)
    /\ Len(t) = 1 \/ t[1] # "0"

RECURSIVE NumberOf(_)
\* the int a JSON number token denotes
NumberOf(t) ==
    IF t = <<>> THEN 0
    ELSE 10 * NumberOf(SubSeq(t, 1, Len(t) - 1)) + DigitVal(t[Len(t)])

\* a "key": number member of a JSON object
IsJsonMember(tok) ==
    /\ Len(SplitOn(tok, ":")) = 2
    /\ IsJsonString(Strip(SplitOn(tok, ":")[1]))
    /\ IsJsonNumber(Strip(SplitOn(tok, ":")[2]))

RECURSIVE MembersFrom(_, _, _)
\* the dict of the members from the i-th on: a repeated key keeps its first
\* position and takes its last value
MembersFrom(toks, i, d) ==
    IF i > Len(toks) THEN d
    ELSE MembersFrom(toks, i + 1,
            DictSet(d, Entry(StringOf(Strip(SplitOn(toks[i], ":")[1])),
                             NumberOf(Strip(SplitOn(toks[i], ":")[2])), TRUE)))

JsonError == [ok |-> FALSE, value |-> PyNone]

JsonValue(v) == [ok |-> TRUE, value |-> v]

\* json.loads(s): ok is FALSE where it raises JSONDecodeError
JsonLoads(s) ==
    LET t == Strip(s)
        inner == Strip(SubSeq(t, 2, Len(t) - 1))
        toks == SplitOn(inner, ",")
    IN  IF Len(t) >= 2 /\ t[1] = "[" /\ t[Len(t)] = "]"
        THEN IF inner = <<>> THEN JsonValue(PyList(<<>>))
             ELSE IF \A i \in 1..Len(toks) : IsJsonString(Strip(toks[i]))
             THEN JsonValue(PyList([i \in 1..Len(toks) |-> PyStr(StringOf(Strip(toks[i])))]))
             ELSE JsonError
        ELSE IF Len(t) >= 2 /\ t[1] = "{" /\ t[Len(t)] = "}"
        THEN IF inner = <<>> THEN JsonValue(PyDict(<<>>))
             ELSE IF \A i \in 1..Len(toks) : IsJsonMember(toks[i])
             THEN JsonValue(PyDict(MembersFrom(toks, 1, <<>>)))
             ELSE JsonError
        ELSE IF IsJsonString(t) THEN JsonValue(PyStr(StringOf(t)))
        ELSE IF IsJsonNumber(t) THEN JsonValue(PyNum(NumberOf(t)))
        ELSE JsonError

RECURSIVE StrippedItems(_, _)
\* [item.strip() for item in parts if item.strip()], from the i-th part on
StrippedItems(parts, i) ==
    IF i > Len(parts) THEN <<>>
    ELSE (IF Strip(parts[i]) = <<>> THEN <<>> ELSE <<PyStr(Strip(parts[i]))>>)
         \o StrippedItems(parts, i + 1)

\* _parse_json_env(env_name, default), raw being os.environ.get(env_name, '')
ParseJsonEnv(raw, default) ==
    LET value == Strip(raw)
    IN  IF value = <<>> THEN default
        ELSE IF JsonLoads(value).ok THEN JsonLoads(value).value
        ELSE IF "," \in Range(value) THEN PyList(StrippedItems(SplitOn(value, ","), 1))
        ELSE IF default.type = "list" THEN PyList(<<PyStr(value)>>)
        ELSE PyStr(value)

RECURSIVE DictUpdate(_, _, _)
\* d.update(other), from the i-th entry of other on
DictUpdate(d, other, i) ==
    IF i > Len(other) THEN d ELSE DictUpdate(DictSet(d, other[i]), other, i + 1)

RECURSIVE KeywordsDict(_, _, _)
\* the loop of get_config over a list of keywords: a str gets the weight 1.0,
\* a dict is merged in, any other item is skipped
KeywordsDict(items, i, d) ==
    IF i > Len(items) THEN d
    ELSE KeywordsDict(items, i + 1,
            CASE items[i].type = "str" -> DictSet(d, Entry(items[i].chars, 1, TRUE))
              [] items[i].type = "dict" -> DictUpdate(d, items[i].items, 1)
              [] OTHER -> d)

\* match_config.get('keywords', [])
YamlKeywords(yaml) == IF yaml.has_keywords THEN yaml.keywords ELSE PyList(<<>>)

\* raw_keywords of get_config: the parsed MATCHING_KEYWORDS where truthy, else
\* the keywords of the YAML file
RawKeywords(env, yaml) ==
    IF Truthy(ParseJsonEnv(env, PyNone)) THEN ParseJsonEnv(env, PyNone)
    ELSE YamlKeywords(yaml)

\* config.keywords as get_config sets it
ConfigKeywords(env, yaml) ==
    LET raw_keywords == RawKeywords(env, yaml)
    IN  CASE raw_keywords.type = "dict" -> raw_keywords.items
          [] raw_keywords.type = "list" -> KeywordsDict(raw_keywords.items, 1, <<>>)
          [] OTHER -> <<>>

\* the Config of a YAML file and an environment that set nothing but keywords
DefaultConfig(entries) ==
    [loaded |-> TRUE,
     keywords |-> [form |-> "dict", items |-> entries],
     threshold |-> FP \div 2, top_k |-> NoTopK,
     llm_api_key |-> "",
     email_smtp_server |-> "", email_sender |-> "", email_password |-> "",
     email_recipients |-> <<>>]

\* no Config yet
NoConfig == [DefaultConfig(<<>>) EXCEPT !.loaded = FALSE]

\* values of MATCHING_KEYWORDS: unset or blank; JSON lists and objects; lists
\* separated by commas; single values; JSON values that are falsy or scalar
EnvValues ==
    { <<>>,
      <<" ">>,
      <<"[", "\"", "a", "\"", ",", "\"", "b", "\"", "]">>,
      <<"[", " ", "\"", "A", " ", "b", "\"", " ", "]">>,
      <<"{", "\"", "a", "\"", ":", " ", "2", "}">>,
      <<"{", "\"", "a", "\"", ":", "2", ",", "\"", "b", "\"", ":", "3", "}">>,
      <<"{", "\"", "a", "\"", ":", "2", ",", "\"", "a", "\"", ":", "3", "}">>,
      <<"a", ",", "b">>,
      <<"a", ",", " ", ",", "B", " ">>,
      <<"a", "b">>,
      <<"a", " ", "b">>,
      <<"[", "a", "]">>,
      <<"[", "]">>,
      <<"{", "}">>,
      <<"0">>,
      <<"5">>,
      <<"\"", "a", "\"">>,
      <<",">> }

\* YAML files: without matching.keywords, with a list of a term and a weighted
\* term, with a dict, with a null
YamlConfigs ==
    { [has_keywords |-> FALSE, keywords |-> PyNone],
      [has_keywords |-> TRUE,
       keywords |-> PyList(<<PyStr(<<"c">>), PyDict(<<Entry(<<"b">>, 2, TRUE)>>)>>)],
      [has_keywords |-> TRUE, keywords |-> PyDict(<<Entry(<<"c">>, 3, TRUE)>>)],
      [has_keywords |-> TRUE, keywords |-> PyNone] }

(***************************************************************************)
(* EmailSender.send_email: the settings test, then the retry loop, an      *)
(* attempt being the connection, the login and the sendmail.               *)
(***************************************************************************)
MaxRetries == 3

DEFAULT_MAX_RETRIES == 3

\* what an attempt can end in: the mail sent, SMTPAuthenticationError, another
\* SMTPException, an OSError, any other Exception
AttemptOutcomes == {"sent", "SMTPAuthenticationError", "SMTPException", "OSError", "Exception"}

Settings(smtp_server, sender_email, password, recipients) ==
    [smtp_server |-> smtp_server, sender_email |-> sender_email,
     password |-> password, recipients |-> recipients]

NoSettings == Settings("", "", "", <<>>)

\* all([self.smtp_server, self.sender_email, self.password, recipients])
Complete(settings) ==
    /\ settings.smtp_server # ""
    /\ settings.sender_email # ""
    /\ settings.password # ""
    /\ settings.recipients # <<>>

\* no send_email call
NoMail ==
    [pc |-> "idle", settings |-> NoSettings, max_retries |-> 0, attempt |-> 0,
     outcomes |-> <<>>, result |-> "none"]

\* send_email up to its loop: False with incomplete settings, False after a
\* loop over an empty range, else the first attempt is due
SendStart(settings, max_retries) ==
    IF ~Complete(settings) \/ max_retries < 1
    THEN [pc |-> "done", settings |-> settings, max_retries |-> max_retries,
          attempt |-> 0, outcomes |-> <<>>, result |-> "False"]
    ELSE [pc |-> "attempt", settings |-> settings, max_retries |-> max_retries,
          attempt |-> 1, outcomes |-> <<>>, result |-> "none"]

\* a loop body that treats an authentication failure as any other failure
AttemptStepRetryAuth(m, outcome) ==
    IF outcome = "sent"
    THEN [m EXCEPT !.outcomes = Append(@, outcome), !.pc = "done", !.result = "True"]
    ELSE IF m.attempt < m.max_retries
    THEN [m EXCEPT !.outcomes = Append(@, outcome), !.attempt = @ + 1]
    ELSE [m EXCEPT !.outcomes = Append(@, outcome), !.pc = "done", !.result = "False"]

\* one iteration of the loop of send_email, the attempt ending in outcome
AttemptStep(m, outcome) ==
    IF outcome = "sent"
    THEN [m EXCEPT !.outcomes = Append(@, outcome), !.pc = "done", !.result = "True"]
    ELSE IF outcome = "SMTPAuthenticationError"
    THEN [m EXCEPT !.outcomes = Append(@, outcome), !.pc = "done", !.result = "False"]
    ELSE IF m.attempt < m.max_retries
    THEN [m EXCEPT !.outcomes = Append(@, outcome), !.attempt = @ + 1]
    ELSE [m EXCEPT !.outcomes = Append(@, outcome), !.pc = "done", !.result = "False"]

(***************************************************************************)
(* ArxivCrawler: the crawl-date gate, the crawl and the duplicate check.   *)
(* The entries of the jsonl directory are the directories of the           *)
(* configured categories, which setup_environment creates.  run waits for  *)
(* two child processes, scrapy and check_stats.py; what it does from one   *)
(* wait to the next is one operator.                                       *)
(***************************************************************************)
MaxRuns == 3

\* the short names of Config.categories
CATEGORIES == <<"CV", "CL">>

\* a category directory without papers.jsonl
EmptyCategory == [kind |-> "nofile", lines |-> <<>>]

\* setup_environment: the jsonl directory of every category exists
SetupEnvironment(st) ==
    [exists |-> TRUE,
     cats |-> IF st.cats = <<>> THEN [i \in 1..Len(CATEGORIES) |-> EmptyCategory]
              ELSE st.cats]

\* the files that the first loop of crawl_papers unlinks
DataFiles(st) == {i \in 1..Len(st.cats) : st.cats[i].kind = "file"}

\* the first loop of crawl_papers: every file of a category directory unlinked
ClearData(st) ==
    [st EXCEPT !.cats = [i \in 1..Len(st.cats) |->
                            IF i \in DataFiles(st) THEN EmptyCategory ELSE st.cats[i]]]

\* _get_last_crawl_date: the stripped content of the file, '' without a file
GetLastCrawlDate(file) == Strip(file)

\* check_should_crawl(force)
CheckShouldCrawl(file, today, force) == force \/ GetLastCrawlDate(file) # today

\* the record of a run(force) call at its first statement, the date file
\* holding file
NewCall(today, force, file) ==
    [date |-> today, force |-> force, before |-> file,
     crawled |-> FALSE, unlinked |-> 0, scrapy |-> "not run",
     duplicates |-> "not run", recorded |-> FALSE, result |-> TRUE]

\* a process that has made no run(force) call: its position, the record of
\* its call and the number of items its scrapy child has written
NoCrawler == [pc |-> "idle", call |-> NewCall(<<>>, FALSE, <<>>), items |-> 0]

\* ArxivCrawler(CrawlConfig(date=today)).run(force) from the constructor to
\* the start of scrapy: the directories made, the gate, and the files
\* unlinked; with the gate closed run returns True
RunToScrapy(st, file, today, force) ==
    LET ready == SetupEnvironment(st)
        call == NewCall(today, force, file)
    IN  IF ~CheckShouldCrawl(file, today, force)
        THEN [storage |-> ready,
              crawler |-> [pc |-> "done", call |-> call, items |-> 0]]
        ELSE [storage |-> ClearData(ready),
              crawler |-> [pc |-> "scrapy", items |-> 0,
                           call |-> [call EXCEPT !.crawled = TRUE,
                                                 !.unlinked = Cardinality(DataFiles(ready)),
                                                 !.scrapy = "running"]]]

\* the items a scrapy child yields, in order, each with the place of its
\* primary category in the jsonl directory
ScrapedItems ==
    << [cat |-> 1, line |-> Line("obj", TRUE, "x", <<"a">>)],
       [cat |-> 2, line |-> Line("obj", TRUE, "y", <<"a", " ", "b">>)] >>

\* _save_to_file of the pipeline in the scrapy child: the line appended to
\* papers.jsonl of the category, which is created when missing
PipelineWrite(st, item) ==
    [st EXCEPT !.cats[item.cat] = [kind |-> "file", lines |-> Append(@.lines, item.line)]]

\* crawl_papers after the wait for scrapy: False ends run, True starts
\* check_stats.py
ScrapyReturned(c, ok) ==
    IF ok
    THEN [c EXCEPT !.pc = "check", !.call.scrapy = "ok", !.call.duplicates = "running"]
    ELSE [c EXCEPT !.pc = "done", !.call.scrapy = "failed", !.call.result = FALSE]

\* check_duplicates after the wait for check_stats.py and the end of run:
\* the date is saved after a return code of 0 or 1
CheckReturned(c, ok) ==
    IF ok
    THEN [c EXCEPT !.pc = "done", !.call.duplicates = "ok", !.call.recorded = TRUE]
    ELSE [c EXCEPT !.pc = "done", !.call.duplicates = "failed", !.call.result = FALSE]

\* dates given with --date: two days, and the second with a trailing blank
Dates == {<<"1">>, <<"2", " ">>}

\* what scrapy leaves in the category directories when it succeeds: nothing,
\* a paper in the first category, a paper in each
ScrapedData ==
    { <<EmptyCategory, EmptyCategory>>,
      <<[kind |-> "file", lines |-> <<Line("obj", TRUE, "x", <<"a">>)>>], EmptyCategory>>,
      <<[kind |-> "file", lines |-> <<Line("obj", TRUE, "x", <<"a">>)>>],
        [kind |-> "file", lines |-> <<Line("obj", TRUE, "y", <<"a", " ", "b">>)>>]>> }

(***************************************************************************)
(* State.                                                                  *)
(***************************************************************************)
VARIABLES
    configured,        \* whether a BM25Matcher has been constructed
    keywords,          \* self.keywords
    keyword_patterns,  \* self.keyword_patterns: per key, the keyword its pattern
                       \* is compiled from
    doc_count,         \* self.doc_count
    keyword_doc_freq,  \* self.keyword_doc_freq
    avg_doc_len,       \* self.avg_doc_len, the float num / den
    pool,              \* the Paper objects in memory
    call,              \* the last match_papers call on this engine
    ncalls,            \* the number of match_papers calls made
    last_pass,         \* history: per paper, its final score in the most recent
                       \* call whose filter it passed, 0 before any
    storage,           \* the jsonl directory: whether it exists, and its entries
                       \* in iterdir() order
    loaded,            \* the outcome of load_papers_from_directory
    found,             \* the outcome of find_relevant_papers
    thr,               \* per thread running match_papers on the shared engine:
                       \* its position, arguments and local variables
    environ,           \* os.environ: the value of MATCHING_KEYWORDS, <<>> when unset
    yaml_config,       \* the YAML file: its matching.keywords entry
    config,            \* the Config that get_config returned
    run,               \* ArxivNotifier.run: its position, arguments, the steps
                       \* it has called, in order, and its local variables
    digest_file,       \* <data_dir>/digests/<date>.md: the digest saved, "" if none
    mail,              \* EmailSender.send_email: its position, arguments, the
                       \* outcome of each attempt made, in order, and its result
    last_crawl_file,   \* <data_dir>/.last_crawl_date: its content, <<>> when absent
    crawler,           \* per process that calls ArxivCrawler.run: its position in
                       \* the call and the record of the call
    crawl              \* history: the ArxivCrawler.run calls that returned, in
                       \* the order of their return

engineVars ==
    <<configured, keywords, keyword_patterns, doc_count, keyword_doc_freq, avg_doc_len>>
scoreVars == <<pool, call, ncalls, last_pass>>
loadVars == <<storage, loaded, found>>
configVars == <<environ, yaml_config, config>>
runVars == <<run, digest_file>>
crawlVars == <<last_crawl_file, crawler, crawl>>
appVars == <<configVars, runVars, mail, crawlVars>>
vars == <<engineVars, scoreVars, loadVars, thr, appVars>>

\* the statistics the engine holds
EngineStats ==
    [doc_count |-> doc_count, keyword_doc_freq |-> keyword_doc_freq,
     avg_doc_len |-> avg_doc_len]

NoCall ==
    [made |-> FALSE, threshold |-> 0, top_k |-> NoTopK,
     outcome |-> "none", result |-> <<>>]

\* whether, in a call with these statistics and this threshold, the i-th paper
\* is reached (no TypeError before it or on it) and passes the filter
PassedIn(kws, stats, papers, threshold, i) ==
    /\ \A j \in 1..i : ~ScorePaper(kws, stats, papers[j]).err
    /\ ScorePaper(kws, stats, papers[i]).score >= threshold

NotLoaded == [made |-> FALSE, outcome |-> "none", papers |-> <<>>, diagnostics |-> 0]

NotFound == [made |-> FALSE, outcome |-> "none", result |-> <<>>]

\* no engine constructed
NoEngine ==
    /\ configured = FALSE
    /\ keywords = <<>>
    /\ keyword_patterns = <<>>
    /\ doc_count = 0
    /\ keyword_doc_freq = <<>>
    /\ avg_doc_len = [num |-> 0, den |-> 1]

\* nothing in storage, nothing loaded
NoStorage ==
    /\ storage = [exists |-> FALSE, cats |-> <<>>]
    /\ loaded = NotLoaded
    /\ found = NotFound

\* the threads of the concurrent runs
Threads == {1, 2}

\* a thread that runs nothing
Idle ==
    [pc |-> "idle", papers |-> <<>>, threshold |-> 0, top_k |-> NoTopK, i |-> 0,
     total_len |-> 0, scored |-> <<>>, result |-> <<>>,
     at |-> "", k |-> 0, count |-> 0, field |-> "", doc_freq |-> 0, idf |-> 0,
     title |-> NoScore, acc |-> NoScore]

NoThreads == thr = [t \in Threads |-> Idle]

\* no environment variable set, a YAML file without keywords, no Config
NoConfiguration ==
    /\ environ = <<>>
    /\ yaml_config = [has_keywords |-> FALSE, keywords |-> PyNone]
    /\ config = NoConfig

\* no run of the pipeline driver
NoRun ==
    [pc |-> "idle", skip_crawl |-> FALSE, force_crawl |-> FALSE, date |-> <<>>,
     steps |-> <<>>, crawled |-> "none", relevant_papers |-> <<>>, digest |-> "",
     sent |-> "none", result |-> "none"]

\* the processes that call ArxivCrawler.run on the data directory
Crawlers == {1, 2}

\* no crawler run so far: no date recorded
NoCrawl ==
    /\ last_crawl_file = <<>>
    /\ crawler = [p \in Crawlers |-> NoCrawler]
    /\ crawl = <<>>

\* nothing configured, run, sent or crawled
NoApp ==
    /\ NoConfiguration
    /\ run = NoRun
    /\ digest_file = ""
    /\ mail = NoMail
    /\ NoCrawl

Init ==
    /\ NoApp
    /\ NoEngine
    /\ NoThreads
    /\ pool \in Pools
    /\ call = NoCall
    /\ ncalls = 0
    /\ last_pass = [i \in 1..Len(pool) |-> 0]
    /\ NoStorage

\* BM25Matcher.__init__: a new engine
Configure(cfg) ==
    /\ ncalls < MaxCalls
    /\ configured' = TRUE
    /\ keywords' = InitKeywords(cfg)
    /\ keyword_patterns' = CompilePatterns(InitKeywords(cfg))
    /\ doc_count' = 0
    /\ keyword_doc_freq' = ZeroFreq(InitKeywords(cfg))
    /\ avg_doc_len' = [num |-> 0, den |-> 1]
    /\ call' = NoCall
    /\ UNCHANGED <<pool, ncalls, last_pass, loadVars, thr, appVars>>

\* BM25Matcher.match_papers on the papers in memory, run from its first to its
\* last statement
Score(threshold, top_k) ==
    /\ configured
    /\ ncalls < MaxCalls
    /\ \E r \in {MatchPapers(keywords, pool, threshold, top_k)} :
           /\ doc_count' = r.stats.doc_count
           /\ keyword_doc_freq' = r.stats.keyword_doc_freq
           /\ avg_doc_len' = r.stats.avg_doc_len
           /\ pool' = r.papers
           /\ call' = [made |-> TRUE, threshold |-> threshold, top_k |-> top_k,
                       outcome |-> r.outcome, result |-> r.result]
           /\ last_pass' =
                [i \in 1..Len(pool) |->
                    IF PassedIn(keywords, r.stats, pool, threshold, i)
                    THEN ScorePaper(keywords, r.stats, pool[i]).score
                    ELSE last_pass[i]]
    /\ ncalls' = ncalls + 1
    /\ UNCHANGED <<configured, keywords, keyword_patterns, loadVars, thr, appVars>>

Next ==
    \/ \E cfg \in KeywordConfigs : Configure(cfg)
    \/ \E threshold \in Thresholds, top_k \in TopKs : Score(threshold, top_k)

Spec == Init /\ [][Next]_vars

(***************************************************************************)
(* The loader reading a storage directory.  The directory is filled by the *)
(* crawler's pipeline (DailyArxivPipeline._save_to_file, one record at a   *)
(* time, in the directory of the record's primary category) and by the     *)
(* environment, which can put there what the pipeline never writes: an     *)
(* entry that is not a directory, a blank line, a line that is not a JSON  *)
(* object, a record without identifier.  The order of the entries is the   *)
(* order of iterdir(), which is not the order of their creation.  Then the *)
(* directory is read.                                                      *)
(***************************************************************************)
\* a title that tells the n-th line written from the others
TitleNo(n) == [i \in 1..n |-> "a"]

CatKinds == {"notdir", "nofile", "file"}

\* the lines a file can hold, as the n-th line written
Lines(n) ==
    { Line("blank", FALSE, "", <<>>),
      Line("bad", FALSE, "", <<>>),
      Line("nonobj", FALSE, "", <<>>),
      Line("obj", FALSE, "", TitleNo(n)),
      Line("obj", TRUE, "x", TitleNo(n)),
      Line("obj", TRUE, "y", TitleNo(n)) }

RECURSIVE LinesIn(_, _)
\* the number of lines in the first c entries
LinesIn(cats, c) ==
    IF c = 0 THEN 0 ELSE LinesIn(cats, c - 1) + Len(cats[c].lines)

LoadInit ==
    /\ NoApp
    /\ NoEngine
    /\ pool = <<>>
    /\ call = NoCall
    /\ ncalls = 0
    /\ last_pass = <<>>
    /\ NoStorage
    /\ NoThreads

\* os.makedirs creates <data_dir>/jsonl
MakeJsonlDir ==
    /\ ~storage.exists
    /\ ~loaded.made
    /\ storage' = [storage EXCEPT !.exists = TRUE]
    /\ UNCHANGED <<engineVars, scoreVars, loaded, found, thr, appVars>>

\* the sequence s with x put at place at
InsertAt(s, at, x) == SubSeq(s, 1, at - 1) \o <<x>> \o SubSeq(s, at, Len(s))

\* one more entry appears in the jsonl directory, at the place at of the
\* iteration order: a category directory (os.makedirs in _get_file_path gives
\* one without papers.jsonl), or an entry the environment puts there
AddCategory(kind, at) ==
    /\ storage.exists
    /\ ~loaded.made
    /\ Len(storage.cats) < MaxCats
    /\ at \in 1..(Len(storage.cats) + 1)
    /\ storage' = [storage EXCEPT
                     !.cats = InsertAt(@, at, [kind |-> kind, lines |-> <<>>])]
    /\ UNCHANGED <<engineVars, scoreVars, loaded, found, thr, appVars>>

\* open(file_path, 'a') in a category directory without papers.jsonl: the
\* file exists, empty
OpenFile(c) ==
    /\ ~loaded.made
    /\ c \in 1..Len(storage.cats)
    /\ storage.cats[c].kind = "nofile"
    /\ storage' = [storage EXCEPT !.cats[c].kind = "file"]
    /\ UNCHANGED <<engineVars, scoreVars, loaded, found, thr, appVars>>

\* one more line is appended to the papers.jsonl of the entry c: json.dump,
\* write('\n') and flush on the open file, or a line of the environment
WriteLine(c, line) ==
    /\ ~loaded.made
    /\ c \in 1..Len(storage.cats)
    /\ storage.cats[c].kind = "file"
    /\ LinesIn(storage.cats, Len(storage.cats)) < MaxRecords
    /\ storage' = [storage EXCEPT !.cats[c].lines = Append(@, line)]
    /\ UNCHANGED <<engineVars, scoreVars, loaded, found, thr, appVars>>

\* the identifiers of the records the pipeline saves
ItemIds == {"x", "y"}

\* DailyArxivPipeline._save_to_file(item) on an item with categories, as a
\* whole: the directory of its primary category is the entry c, created at
\* that place when new is true (with the jsonl directory, when that is
\* missing); papers.jsonl is opened for appending, which creates it, and the
\* record is written as one line.  An item without categories is not saved, and
\* on an entry that is not a directory os.makedirs raises: neither changes
\* the storage.
SaveToFile(id, c, new) ==
    /\ ~loaded.made
    /\ LinesIn(storage.cats, Len(storage.cats)) < MaxRecords
    /\ \E line \in {Line("obj", TRUE, id,
                          TitleNo(LinesIn(storage.cats, Len(storage.cats)) + 1))} :
          IF new
          THEN /\ Len(storage.cats) < MaxCats
               /\ c \in 1..(Len(storage.cats) + 1)
               /\ storage' = [exists |-> TRUE,
                              cats |-> InsertAt(storage.cats, c,
                                          [kind |-> "file", lines |-> <<line>>])]
          ELSE /\ c \in 1..Len(storage.cats)
               /\ storage.cats[c].kind \in {"nofile", "file"}
               /\ storage' = [storage EXCEPT
                                !.cats[c] = [kind |-> "file",
                                             lines |-> Append(@.lines, line)]]
    /\ UNCHANGED <<engineVars, scoreVars, loaded, found, thr, appVars>>

\* load_papers_from_directory(data_dir)
Load ==
    /\ ~loaded.made
    /\ \E r \in {LoadPapersFromDirectory(storage)} :
          loaded' = [made |-> TRUE, outcome |-> r.outcome, papers |-> r.papers,
                     diagnostics |-> r.diagnostics]
    /\ UNCHANGED <<engineVars, scoreVars, storage, found, thr, appVars>>

LoadNext ==
    \/ MakeJsonlDir
    \/ \E kind \in CatKinds, at \in 1..MaxCats : AddCategory(kind, at)
    \/ \E c \in 1..MaxCats : OpenFile(c)
    \/ \E c \in 1..MaxCats, line \in Lines(LinesIn(storage.cats, Len(storage.cats)) + 1) :
          WriteLine(c, line)
    \/ \E id \in ItemIds, c \in 1..MaxCats, new \in BOOLEAN : SaveToFile(id, c, new)
    \/ Load

SpecLoad == LoadInit /\ [][LoadNext]_vars

(***************************************************************************)
(* find_relevant_papers on a storage directory: the load, and on a         *)
(* collection that is not empty an engine constructed and run.             *)
(***************************************************************************)
FindConfigs ==
    { [form |-> "list", items |-> <<Entry(<<"a">>, 1, TRUE)>>],
      [form |-> "dict", items |-> <<Entry(<<"A", "a">>, 2, TRUE)>>] }

\* a find_relevant_papers without the test "if not papers"
FindRelevantPapersAlwaysMatch(cfg, threshold, top_k) ==
    /\ ~loaded.made
    /\ \E r \in {LoadPapersFromDirectory(storage)} :
          /\ loaded' = [made |-> TRUE, outcome |-> r.outcome, papers |-> r.papers,
                        diagnostics |-> r.diagnostics]
          /\ IF r.outcome # "ok"
             THEN /\ found' = [made |-> TRUE, outcome |-> r.outcome, result |-> <<>>]
                  /\ UNCHANGED <<engineVars, scoreVars>>
             ELSE \E m \in {MatchPapers(InitKeywords(cfg), r.papers, threshold, top_k)} :
                     /\ configured' = TRUE
                     /\ keywords' = InitKeywords(cfg)
                     /\ keyword_patterns' = CompilePatterns(InitKeywords(cfg))
                     /\ doc_count' = m.stats.doc_count
                     /\ keyword_doc_freq' = m.stats.keyword_doc_freq
                     /\ avg_doc_len' = m.stats.avg_doc_len
                     /\ pool' = m.papers
                     /\ call' = [made |-> TRUE, threshold |-> threshold, top_k |-> top_k,
                                 outcome |-> m.outcome, result |-> m.result]
                     /\ ncalls' = ncalls + 1
                     /\ last_pass' = [i \in 1..Len(m.papers) |-> m.papers[i].relevance_score]
                     /\ found' = [made |-> TRUE, outcome |-> m.outcome, result |-> m.result]
    /\ UNCHANGED <<storage, thr>>

\* find_relevant_papers(data_dir, keywords, threshold, top_k): an exception of
\* the load or of match_papers leaves it
FindRelevantPapers(cfg, threshold, top_k) ==
    /\ ~loaded.made
    /\ \E r \in {LoadPapersFromDirectory(storage)} :
          /\ loaded' = [made |-> TRUE, outcome |-> r.outcome, papers |-> r.papers,
                        diagnostics |-> r.diagnostics]
          /\ IF r.outcome # "ok"
             THEN /\ found' = [made |-> TRUE, outcome |-> r.outcome, result |-> <<>>]
                  /\ UNCHANGED <<engineVars, scoreVars>>
             ELSE IF r.papers = <<>>
             THEN /\ found' = [made |-> TRUE, outcome |-> "ok", result |-> <<>>]
                  /\ UNCHANGED <<engineVars, scoreVars>>
             ELSE \E m \in {MatchPapers(InitKeywords(cfg), r.papers, threshold, top_k)} :
                     /\ configured' = TRUE
                     /\ keywords' = InitKeywords(cfg)
                     /\ keyword_patterns' = CompilePatterns(InitKeywords(cfg))
                     /\ doc_count' = m.stats.doc_count
                     /\ keyword_doc_freq' = m.stats.keyword_doc_freq
                     /\ avg_doc_len' = m.stats.avg_doc_len
                     /\ pool' = m.papers
                     /\ call' = [made |-> TRUE, threshold |-> threshold, top_k |-> top_k,
                                 outcome |-> m.outcome, result |-> m.result]
                     /\ ncalls' = ncalls + 1
                     /\ last_pass' = [i \in 1..Len(m.papers) |-> m.papers[i].relevance_score]
                     /\ found' = [made |-> TRUE, outcome |-> m.outcome, result |-> m.result]
    /\ UNCHANGED <<storage, thr>>

\* the lines of the files find_relevant_papers is run on, as the n-th line
\* written: the records of the pipeline, a blank line and a line that is not a
\* JSON object
FindLines(n) ==
    { Line("blank", FALSE, "", <<>>),
      Line("nonobj", FALSE, "", <<>>) }
    \cup { Line("obj", TRUE, id, TitleNo(n)) : id \in ItemIds }

FindNext ==
    \/ MakeJsonlDir
    \/ \E kind \in CatKinds, at \in 1..MaxCats : AddCategory(kind, at)
    \/ \E c \in 1..MaxCats : OpenFile(c)
    \/ \E c \in 1..MaxCats,
          line \in FindLines(LinesIn(storage.cats, Len(storage.cats)) + 1) :
          WriteLine(c, line)
    \/ \E id \in ItemIds, c \in 1..MaxCats, new \in BOOLEAN : SaveToFile(id, c, new)
    \/ \E cfg \in FindConfigs, threshold \in Thresholds :
          FindRelevantPapers(cfg, threshold, NoTopK) /\ UNCHANGED appVars

SpecFind == LoadInit /\ [][FindNext]_vars

(***************************************************************************)
(* Two threads calling match_papers on one engine, each on a collection of *)
(* its own, their statements interleaved.  A step holds at most one access *)
(* to the statistics the engine holds: the interpreter can switch threads  *)
(* between any two lines, and inside a line where it calls a function      *)
(* (max(self.doc_count, 1) in line 91), but not inside the `+= 1` of line  *)
(* 89.  A thread is at a phase (pc), at a place in it (at), at the i-th    *)
(* paper and the k-th keyword; count, doc_freq and idf are the locals that *)
(* hold what it has read, acc the score and matched_keywords of the field  *)
(* it scores, title those of the title.                                    *)
(***************************************************************************)
\* pairs of collections without a document in common: the first from the first
\* half of the documents, the second from the rest
DisjointPools ==
    PoolsOf(1..(Len(DocList) \div 2))
        \X PoolsOf(((Len(DocList) \div 2) + 1)..Len(DocList))

\* the configurations in which every weight is a positive number
ValidConfigs ==
    { cfg \in KeywordConfigs :
        \A i \in 1..Len(cfg.items) : cfg.items[i].numeric /\ cfg.items[i].weight > 0 }

ConcInit ==
    /\ NoApp
    /\ \E cfg \in ValidConfigs :
          /\ configured = TRUE
          /\ keywords = InitKeywords(cfg)
          /\ keyword_patterns = CompilePatterns(InitKeywords(cfg))
          /\ doc_count = 0
          /\ keyword_doc_freq = ZeroFreq(InitKeywords(cfg))
          /\ avg_doc_len = [num |-> 0, den |-> 1]
    /\ pool = <<>>
    /\ call = NoCall
    /\ ncalls = 0
    /\ last_pass = <<>>
    /\ NoStorage
    /\ \E pq \in DisjointPools, threshold \in Thresholds :
          thr = [t \in Threads |->
                    [Idle EXCEPT !.pc = "count", !.papers = pq[t],
                                 !.threshold = threshold]]

\* a count that adds the collection to the documents counted before
TCountAccumulate(t) ==
    /\ thr[t].pc = "count"
    /\ doc_count' = doc_count + Len(thr[t].papers)
    /\ thr' = [thr EXCEPT ![t].pc = "reset", ![t].total_len = 0]
    /\ UNCHANGED <<configured, keywords, keyword_patterns, keyword_doc_freq, avg_doc_len, scoreVars, loadVars, appVars>>

\* self.doc_count = len(papers); total_len = 0
TCount(t) ==
    /\ thr[t].pc = "count"
    /\ doc_count' = Len(thr[t].papers)
    /\ thr' = [thr EXCEPT ![t].pc = "reset", ![t].total_len = 0]
    /\ UNCHANGED <<configured, keywords, keyword_patterns, keyword_doc_freq, avg_doc_len, scoreVars, loadVars, appVars>>

\* a statistics pass that keeps the document frequencies of the call before
TResetKeep(t) ==
    /\ thr[t].pc = "reset"
    /\ keyword_doc_freq' = keyword_doc_freq
    /\ thr' = [thr EXCEPT ![t].pc = "stats", ![t].at = "text", ![t].i = 1]
    /\ UNCHANGED <<configured, keywords, keyword_patterns, doc_count, avg_doc_len, scoreVars, loadVars, appVars>>

\* self.keyword_doc_freq = {kw: 0 for kw in self.keywords.keys()}
TReset(t) ==
    /\ thr[t].pc = "reset"
    /\ keyword_doc_freq' = ZeroFreq(keywords)
    /\ thr' = [thr EXCEPT ![t].pc = "stats", ![t].at = "text", ![t].i = 1]
    /\ UNCHANGED <<configured, keywords, keyword_patterns, doc_count, avg_doc_len, scoreVars, loadVars, appVars>>

\* text = f"{paper.title} {paper.summary}".lower() of the i-th paper, and
\* total_len += len(self._tokenize(text)); the loop over the keywords follows
TText(t) ==
    /\ thr[t].pc = "stats" /\ thr[t].at = "text"
    /\ thr[t].i <= Len(thr[t].papers)
    /\ \E text \in {CombinedText(thr[t].papers[thr[t].i])} :
          thr' = IF keywords = <<>>
                 THEN [thr EXCEPT ![t].total_len = @ + Len(Tokenize(text)),
                                  ![t].i = @ + 1]
                 ELSE [thr EXCEPT ![t].total_len = @ + Len(Tokenize(text)),
                                  ![t].at = "keyword", ![t].k = 1]
    /\ UNCHANGED <<engineVars, scoreVars, loadVars, appVars>>

\* the k-th keyword in the statistics loop: the test of line 88, and on a match
\* self.keyword_doc_freq[keyword] += 1 on the dict the engine holds now,
\* whichever call has put it there
TStat(t) ==
    /\ thr[t].pc = "stats" /\ thr[t].at = "keyword"
    /\ \E text \in {CombinedText(thr[t].papers[thr[t].i])},
          keyword \in {keywords[thr[t].k].kw} :
          keyword_doc_freq' =
              IF CountKeywordMatches(text, keyword) > 0
              THEN [keyword_doc_freq EXCEPT ![keyword] = @ + 1]
              ELSE keyword_doc_freq
    /\ thr' = IF thr[t].k < Len(keywords)
              THEN [thr EXCEPT ![t].k = @ + 1]
              ELSE [thr EXCEPT ![t].k = 0, ![t].at = "text", ![t].i = @ + 1]
    /\ UNCHANGED <<configured, keywords, keyword_patterns, doc_count, avg_doc_len, scoreVars, loadVars, appVars>>

\* max(self.doc_count, 1), evaluated after the statistics loop
TDivisor(t) ==
    /\ thr[t].pc = "stats" /\ thr[t].at = "text"
    /\ thr[t].i > Len(thr[t].papers)
    /\ thr' = [thr EXCEPT ![t].at = "avg", ![t].count = Max(doc_count, 1)]
    /\ UNCHANGED <<engineVars, scoreVars, loadVars, appVars>>

\* self.avg_doc_len = total_len / <the value of max(self.doc_count, 1)>; the
\* scoring loop follows, which starts score_paper with the title
TAvg(t) ==
    /\ thr[t].pc = "stats" /\ thr[t].at = "avg"
    /\ avg_doc_len' = [num |-> thr[t].total_len, den |-> thr[t].count]
    /\ thr' = [thr EXCEPT ![t].pc = "score", ![t].i = 1, ![t].count = 0,
                          ![t].at = "tf", ![t].field = "title", ![t].k = 1]
    /\ UNCHANGED <<configured, keywords, keyword_patterns, doc_count, keyword_doc_freq, scoreVars, loadVars, appVars>>

\* the text and the length that score_paper passes to _calculate_bm25_score
\* for a field
FieldText(paper, field) ==
    IF field = "title" THEN Lower(paper.title) ELSE Lower(paper.summary)

FieldLen(paper, field) ==
    IF field = "title" THEN Len(Tokenize(paper.title)) ELSE Len(Tokenize(paper.summary))

\* the tf of the keyword a thread is at, in the field it scores
Tf(t) ==
    CountKeywordMatches(FieldText(thr[t].papers[thr[t].i], thr[t].field),
                        keywords[thr[t].k].kw)

\* the k-th keyword in _calculate_bm25_score: tf, the test tf > 0 and
\* matched_keywords.append(keyword)
TTf(t) ==
    /\ thr[t].pc = "score" /\ thr[t].at = "tf"
    /\ thr[t].i <= Len(thr[t].papers)
    /\ thr[t].k <= Len(keywords)
    /\ thr' = IF Tf(t) = 0
              THEN [thr EXCEPT ![t].k = @ + 1]
              ELSE [thr EXCEPT ![t].acc.matched = Append(@, keywords[thr[t].k].kw),
                               ![t].at = "freq"]
    /\ UNCHANGED <<engineVars, scoreVars, loadVars, appVars>>

\* doc_freq = self.keyword_doc_freq.get(keyword, 0) in _calculate_idf
TFreq(t) ==
    /\ thr[t].pc = "score" /\ thr[t].at = "freq"
    /\ thr' = [thr EXCEPT ![t].at = "idf",
                          ![t].doc_freq = DocFreq(keyword_doc_freq,
                                                  keywords[thr[t].k].kw)]
    /\ UNCHANGED <<engineVars, scoreVars, loadVars, appVars>>

\* idf = math.log((self.doc_count - doc_freq + 0.5) / (doc_freq + 0.5) + 1), and
\* return max(idf, 0)
TIdf(t) ==
    /\ thr[t].pc = "score" /\ thr[t].at = "idf"
    /\ thr' = [thr EXCEPT ![t].at = "term", ![t].doc_freq = 0,
                          ![t].idf = Idf(doc_count, thr[t].doc_freq)]
    /\ UNCHANGED <<engineVars, scoreVars, loadVars, appVars>>

\* tf_normalized, computed with the self.avg_doc_len the engine holds now, and
\* score += idf * tf_normalized * weight, which raises TypeError on a weight
\* that is not a number
TScore(t) ==
    /\ thr[t].pc = "score" /\ thr[t].at = "term"
    /\ \E e \in {keywords[thr[t].k]},
          doc_len \in {FieldLen(thr[t].papers[thr[t].i], thr[t].field)} :
          thr' = IF ~e.numeric
                 THEN [thr EXCEPT ![t].pc = "raised"]
                 ELSE [thr EXCEPT
                         ![t].acc.score =
                             @ + ScoreTerm(thr[t].idf,
                                           TfNormalized(EngineStats, Tf(t), doc_len),
                                           e.weight),
                         ![t].idf = 0, ![t].at = "tf", ![t].k = @ + 1]
    /\ UNCHANGED <<engineVars, scoreVars, loadVars, appVars>>

\* _calculate_bm25_score returns for the title: score_paper keeps its result
\* and calls it for the summary
TField(t) ==
    /\ thr[t].pc = "score" /\ thr[t].at = "tf"
    /\ thr[t].i <= Len(thr[t].papers)
    /\ thr[t].k > Len(keywords)
    /\ thr[t].field = "title"
    /\ thr' = [thr EXCEPT ![t].title = thr[t].acc, ![t].acc = NoScore,
                          ![t].field = "abstract", ![t].k = 1]
    /\ UNCHANGED <<engineVars, scoreVars, loadVars, appVars>>

\* _calculate_bm25_score returns for the summary: the rest of score_paper, and
\* in match_papers the filter, paper.relevance_score = score and the append
TPaper(t) ==
    /\ thr[t].pc = "score" /\ thr[t].at = "tf"
    /\ thr[t].i <= Len(thr[t].papers)
    /\ thr[t].k > Len(keywords)
    /\ thr[t].field = "abstract"
    /\ \E s \in {PaperScore(keywords, thr[t].title, thr[t].acc)} :
          thr' = IF PassFilter(s.score, thr[t].threshold)
                 THEN [thr EXCEPT
                         ![t].papers[thr[t].i].relevance_score = s.score,
                         ![t].scored = Append(@, [paper |-> thr[t].i,
                                                  details |-> s.details]),
                         ![t].i = @ + 1, ![t].title = NoScore, ![t].acc = NoScore,
                         ![t].field = "title", ![t].k = 1]
                 ELSE [thr EXCEPT
                         ![t].i = @ + 1, ![t].title = NoScore, ![t].acc = NoScore,
                         ![t].field = "title", ![t].k = 1]
    /\ UNCHANGED <<engineVars, scoreVars, loadVars, appVars>>

\* the sort, the truncation and the return
TFinish(t) ==
    /\ thr[t].pc = "score"
    /\ thr[t].i > Len(thr[t].papers)
    /\ thr' = [thr EXCEPT
                 ![t].pc = "done",
                 ![t].result = Truncate(SortDesc(thr[t].papers, thr[t].scored,
                                                 Len(thr[t].scored)),
                                        thr[t].top_k)]
    /\ UNCHANGED <<engineVars, scoreVars, loadVars, appVars>>

ConcNext ==
    \E t \in Threads :
        \/ TCount(t) \/ TReset(t) \/ TText(t) \/ TStat(t) \/ TDivisor(t) \/ TAvg(t)
        \/ TTf(t) \/ TFreq(t) \/ TIdf(t) \/ TScore(t) \/ TField(t) \/ TPaper(t)
        \/ TFinish(t)

SpecConc == ConcInit /\ [][ConcNext]_vars

(***************************************************************************)
(* One caller making match_papers calls one after the other on one engine, *)
(* statement by statement, each call on fresh copies of a collection.      *)
(* When a call returns, call and pool keep its arguments, its result and   *)
(* its documents.                                                          *)
(***************************************************************************)
\* the collections of the calls in sequence
SeqPools == PoolsOf({1, 3})

SeqTopKs == {NoTopK, TopK(1)}

SeqInit ==
    /\ NoApp
    /\ \E cfg \in KeywordConfigs :
          /\ configured = TRUE
          /\ keywords = InitKeywords(cfg)
          /\ keyword_patterns = CompilePatterns(InitKeywords(cfg))
          /\ doc_count = 0
          /\ keyword_doc_freq = ZeroFreq(InitKeywords(cfg))
          /\ avg_doc_len = [num |-> 0, den |-> 1]
    /\ pool = <<>>
    /\ call = NoCall
    /\ ncalls = 0
    /\ last_pass = <<>>
    /\ NoStorage
    /\ NoThreads

\* the caller enters match_papers(papers, threshold, top_k)
TCall(t, papers, threshold, top_k) ==
    /\ thr[t].pc \in {"idle", "raised"}
    /\ ncalls < MaxCalls
    /\ ncalls' = ncalls + 1
    /\ thr' = [thr EXCEPT ![t] = [Idle EXCEPT !.pc = "count", !.papers = papers,
                                              !.threshold = threshold,
                                              !.top_k = top_k]]
    /\ UNCHANGED <<engineVars, pool, call, last_pass, loadVars, appVars>>

\* return scored_papers: the caller holds the result and the documents
TReturn(t) ==
    /\ thr[t].pc = "done"
    /\ pool' = thr[t].papers
    /\ call' = [made |-> TRUE, threshold |-> thr[t].threshold, top_k |-> thr[t].top_k,
                outcome |-> "ok", result |-> thr[t].result]
    /\ thr' = [thr EXCEPT ![t].pc = "idle"]
    /\ UNCHANGED <<engineVars, ncalls, last_pass, loadVars, appVars>>

SeqNext ==
    \/ \E papers \in SeqPools, threshold \in Thresholds, top_k \in SeqTopKs :
          TCall(1, papers, threshold, top_k)
    \/ TCount(1) \/ TReset(1) \/ TText(1) \/ TStat(1) \/ TDivisor(1) \/ TAvg(1)
    \/ TTf(1) \/ TFreq(1) \/ TIdf(1) \/ TScore(1) \/ TField(1) \/ TPaper(1)
    \/ TFinish(1)
    \/ TReturn(1)

SpecSeq == SeqInit /\ [][SeqNext]_vars

(***************************************************************************)
(* The engine on documents and weights that set the two fields against     *)
(* each other: the same keywords in the title only, in the abstract only   *)
(* and in both, under weights of either sign; and documents short enough   *)
(* for an average length below 1.                                          *)
(***************************************************************************)
DocListW ==
    << Paper("r1", <<"a">>, <<"c">>),
       Paper("r2", <<"c">>, <<"a">>),
       Paper("r3", <<"a">>, <<"a">>),
       Paper("r4", <<"a", " ", "b">>, <<"b", " ", "a">>),
       Paper("r5", <<"b", " ", "a">>, <<"c">>),
       Paper("r6", <<"c">>, <<"a", " ", "b">>),
       Paper("r7", <<"a">>, <<>>),
       Paper("r8", <<>>, <<>>) >>

WeightConfigs ==
    { [form |-> "dict", items |-> <<Entry(<<"a">>, 1, TRUE)>>],
      [form |-> "dict", items |-> <<Entry(<<"a">>, 2, TRUE), Entry(<<"b">>, 1, TRUE)>>],
      [form |-> "dict", items |-> <<Entry(<<"A">>, 2, TRUE), Entry(<<"b">>, 3, TRUE)>>],
      [form |-> "dict", items |-> <<Entry(<<"a">>, 0, TRUE), Entry(<<"b">>, 1, TRUE)>>],
      [form |-> "dict", items |-> <<Entry(<<"a">>, -11, TRUE)>>] }

\* the collections of up to MaxDocs of the documents of docs, each in the order
\* of docs
PoolsFrom(docs) ==
    { [j \in 1..Cardinality(S) |-> docs[Ascending(S)[j]]] :
        S \in { T \in SUBSET (1..Len(docs)) : Cardinality(T) <= MaxDocs } }

InitW ==
    /\ NoApp
    /\ NoEngine
    /\ NoThreads
    /\ pool \in PoolsFrom(DocListW)
    /\ call = NoCall
    /\ ncalls = 0
    /\ last_pass = [i \in 1..Len(pool) |-> 0]
    /\ NoStorage

NextW ==
    \/ \E cfg \in WeightConfigs : Configure(cfg)
    \/ \E threshold \in Thresholds : Score(threshold, NoTopK)

SpecWeights == InitW /\ [][NextW]_vars

(***************************************************************************)
(* The engine on texts and keywords that hold "+", a character that is     *)
(* neither a \w character nor whitespace, beside letters of either case.   *)
(***************************************************************************)
DocListT ==
    << Paper("t1", <<"c", "+", " ", "a">>, <<"b">>),
       Paper("t2", <<"c", "+", "a">>, <<"A">>),
       Paper("t3", <<"a", "b">>, <<"a", " ", "B">>),
       Paper("t4", <<"+", "a">>, <<"a", "+">>),
       Paper("t5", <<"A", " ", "a">>, <<"b", "+", "a", " ", "c", "+">>) >>

TextConfigs ==
    { [form |-> "list", items |-> <<Entry(<<"a">>, 1, TRUE)>>],
      [form |-> "list", items |-> <<Entry(<<"c", "+">>, 1, TRUE)>>],
      [form |-> "list", items |-> <<Entry(<<"+", "a">>, 1, TRUE), Entry(<<"B">>, 1, TRUE)>>],
      [form |-> "list", items |-> <<Entry(<<"A", " ", "b">>, 1, TRUE)>>],
      [form |-> "list", items |-> <<Entry(<<"B">>, 1, TRUE), Entry(<<"b">>, 1, TRUE)>>],
      [form |-> "dict", items |-> <<Entry(<<"A">>, 2, TRUE), Entry(<<"a">>, 3, TRUE),
                                    Entry(<<"B">>, 2, TRUE)>>] }

InitT ==
    /\ NoApp
    /\ NoEngine
    /\ NoThreads
    /\ pool \in PoolsFrom(DocListT)
    /\ call = NoCall
    /\ ncalls = 0
    /\ last_pass = [i \in 1..Len(pool) |-> 0]
    /\ NoStorage

NextT ==
    \/ \E cfg \in TextConfigs : Configure(cfg)
    \/ \E threshold \in Thresholds : Score(threshold, NoTopK)

SpecText == InitT /\ [][NextT]_vars

(***************************************************************************)
(* get_config on an environment and a YAML file that the deployment sets.  *)
(***************************************************************************)
ConfigInit ==
    /\ NoEngine
    /\ NoThreads
    /\ pool = <<>>
    /\ call = NoCall
    /\ ncalls = 0
    /\ last_pass = <<>>
    /\ NoStorage
    /\ NoApp

\* the deployment sets MATCHING_KEYWORDS
SetEnv(value) ==
    /\ environ' = value
    /\ UNCHANGED <<engineVars, scoreVars, loadVars, thr, yaml_config, config, runVars,
                   mail, crawlVars>>

\* the deployment writes the YAML file
WriteYaml(yaml) ==
    /\ yaml_config' = yaml
    /\ UNCHANGED <<engineVars, scoreVars, loadVars, thr, environ, config, runVars,
                   mail, crawlVars>>

\* get_config(config_path)
GetConfig ==
    /\ config' = DefaultConfig(ConfigKeywords(environ, yaml_config))
    /\ UNCHANGED <<engineVars, scoreVars, loadVars, thr, environ, yaml_config, runVars,
                   mail, crawlVars>>

ConfigNext ==
    \/ \E value \in EnvValues : SetEnv(value)
    \/ \E yaml \in YamlConfigs : WriteYaml(yaml)
    \/ GetConfig

SpecConfig == ConfigInit /\ [][ConfigNext]_vars

(***************************************************************************)
(* send_email called on an EmailSender, a step being the settings test or  *)
(* one attempt of the loop.  An attempt ends (the connection has a timeout *)
(* of 30 seconds), so the loop is not left waiting forever.                *)
(***************************************************************************)
MailSettings ==
    { Settings("smtp", "me", "pw", <<"you">>),
      Settings("smtp", "me", "pw", <<"you", "them">>),
      Settings("", "me", "pw", <<"you">>),
      Settings("smtp", "", "pw", <<"you">>),
      Settings("smtp", "me", "", <<"you">>),
      Settings("smtp", "me", "pw", <<>>) }

MailInit ==
    /\ NoEngine
    /\ NoThreads
    /\ pool = <<>>
    /\ call = NoCall
    /\ ncalls = 0
    /\ last_pass = <<>>
    /\ NoStorage
    /\ NoApp

\* send_email is called: the settings test
SendEmail(settings, max_retries) ==
    /\ mail.pc \in {"idle", "done"}
    /\ mail' = SendStart(settings, max_retries)
    /\ UNCHANGED <<engineVars, scoreVars, loadVars, thr, configVars, runVars, crawlVars>>

\* one attempt of the loop
Attempt(outcome) ==
    /\ mail.pc = "attempt"
    /\ mail' = AttemptStep(mail, outcome)
    /\ UNCHANGED <<engineVars, scoreVars, loadVars, thr, configVars, runVars, crawlVars>>

MailNext ==
    \/ \E settings \in MailSettings, max_retries \in 0..MaxRetries :
          SendEmail(settings, max_retries)
    \/ \E outcome \in AttemptOutcomes : Attempt(outcome)

SpecMail ==
    /\ MailInit
    /\ [][MailNext]_vars
    /\ WF_vars(\E outcome \in AttemptOutcomes : Attempt(outcome))

(***************************************************************************)
(* Crawler runs on one data directory, each of a new ArxivCrawler, made by *)
(* processes that run side by side.  A step of a process runs from one     *)
(* wait for a child process to the next; a scrapy child writes its items   *)
(* one at a time while the crawler waits for it.                           *)
(***************************************************************************)
CrawlInit ==
    /\ NoEngine
    /\ NoThreads
    /\ pool = <<>>
    /\ call = NoCall
    /\ ncalls = 0
    /\ last_pass = <<>>
    /\ NoStorage
    /\ NoApp

\* the run(force) calls begun so far
Begun == Len(crawl) + Cardinality({p \in Crawlers : crawler[p].pc \in {"scrapy", "check"}})

\* process p calls ArxivCrawler(CrawlConfig(date=today)).run(force), which
\* runs to the start of scrapy, or returns True with the gate closed
BeginRun(p, today, force) ==
    \E r \in {RunToScrapy(storage, last_crawl_file, today, force)} :
        /\ storage' = r.storage
        /\ crawler' = [crawler EXCEPT ![p] = r.crawler]
        /\ crawl' = IF r.crawler.pc = "done" THEN Append(crawl, r.crawler.call) ELSE crawl
        /\ UNCHANGED last_crawl_file

\* a run(force) call of a process that is in none; the second process makes
\* the calls that begin while the first is in one
Crawl(p, today, force) ==
    /\ crawler[p].pc \in {"idle", "done"}
    /\ p = 2 => crawler[1].pc \in {"scrapy", "check"}
    /\ Begun < MaxRuns
    /\ BeginRun(p, today, force)
    /\ UNCHANGED <<engineVars, scoreVars, loaded, found, thr, configVars, runVars, mail>>

\* the scrapy child of p hands its next item to the pipeline
ScrapyItem(p) ==
    /\ crawler[p].pc = "scrapy"
    /\ crawler[p].items < Len(ScrapedItems)
    /\ storage' = PipelineWrite(storage, ScrapedItems[crawler[p].items + 1])
    /\ crawler' = [crawler EXCEPT ![p].items = @ + 1]
    /\ UNCHANGED <<engineVars, scoreVars, loaded, found, thr, configVars, runVars, mail,
                   last_crawl_file, crawl>>

\* the scrapy child of p exits: crawl_papers returns, and run either starts
\* check_stats.py or returns False
ScrapyExit(p, ok) ==
    /\ crawler[p].pc = "scrapy"
    /\ crawler' = [crawler EXCEPT ![p] = ScrapyReturned(@, ok)]
    /\ crawl' = IF ok THEN crawl ELSE Append(crawl, crawler'[p].call)
    /\ UNCHANGED <<engineVars, scoreVars, loadVars, thr, configVars, runVars, mail,
                   last_crawl_file>>

\* check_stats.py of p exits: check_duplicates returns, and run either saves
\* the date and returns True or returns False
CheckExit(p, ok) ==
    /\ crawler[p].pc = "check"
    /\ crawler' = [crawler EXCEPT ![p] = CheckReturned(@, ok)]
    /\ last_crawl_file' = IF ok THEN crawler[p].call.date ELSE last_crawl_file
    /\ crawl' = Append(crawl, crawler'[p].call)
    /\ UNCHANGED <<engineVars, scoreVars, loadVars, thr, configVars, runVars, mail>>

CrawlNext ==
    \/ \E p \in Crawlers, today \in Dates, force \in BOOLEAN : Crawl(p, today, force)
    \/ \E p \in Crawlers : ScrapyItem(p)
    \/ \E p \in Crawlers, ok \in BOOLEAN : ScrapyExit(p, ok)
    \/ \E p \in Crawlers, ok \in BOOLEAN : CheckExit(p, ok)

SpecCrawl == CrawlInit /\ [][CrawlNext]_vars

(***************************************************************************)
(* ArxivNotifier.run: one run of the pipeline driver.  A step runs from    *)
(* the start of run, or from a wait, to the next wait: the crawler of step *)
(* 1 (process 1) waits for scrapy and for check_stats.py, send_email of    *)
(* step 4 sleeps between its attempts.  While step 1 waits another process *)
(* (process 2) may start the crawler on the same data directory, and at    *)
(* any place the user may interrupt the run.  The Config is the one main() *)
(* hands over, after its command-line overrides.                           *)
(***************************************************************************)
\* a Config of a run
RunConfig(entries, threshold, top_k, llm_api_key, email_password) ==
    [DefaultConfig(entries) EXCEPT
        !.threshold = threshold, !.top_k = top_k, !.llm_api_key = llm_api_key,
        !.email_smtp_server = "smtp", !.email_sender = "me",
        !.email_password = email_password, !.email_recipients = <<"you">>]

\* the Configs of the runs: without keywords, with a keyword, with a keyword
\* whose weight is not a number, each with threshold 0 or the default and
\* with and without top_k; and, for a keyword, with and without an LLM key
\* and a password
RunConfigs ==
    { RunConfig(entries, threshold, top_k, "", "") :
        entries \in {<<>>, <<Entry(<<"a">>, 1, TRUE)>>, <<Entry(<<"b">>, 0, FALSE)>>},
        threshold \in Thresholds,
        top_k \in {NoTopK, TopK(1)} }
    \cup { RunConfig(<<Entry(<<"a">>, 1, TRUE)>>, 0, NoTopK, llm_api_key, email_password) :
             llm_api_key \in {"", "key"},
             email_password \in {"", "pw"} }

\* the dates of the runs
RunDates == {<<"1">>, <<"2">>}

\* what summarize_relevant_papers does: it returns a digest, or it raises
SummarizeEnvs == {"digest", "raised"}

\* a data directory never crawled, or crawled for the first date
RunInit ==
    /\ NoEngine
    /\ NoThreads
    /\ pool = <<>>
    /\ call = NoCall
    /\ ncalls = 0
    /\ last_pass = <<>>
    /\ loaded = NotLoaded
    /\ found = NotFound
    /\ \/ storage = [exists |-> FALSE, cats |-> <<>>] /\ last_crawl_file = <<>>
       \/ \E scraped \in ScrapedData :
             /\ storage = [exists |-> TRUE, cats |-> scraped]
             /\ last_crawl_file = <<"1">>
    /\ crawler = [p \in Crawlers |-> NoCrawler]
    /\ crawl = <<>>
    /\ environ = <<>>
    /\ yaml_config = [has_keywords |-> FALSE, keywords |-> PyNone]
    /\ config \in RunConfigs
    /\ run = NoRun
    /\ digest_file = ""
    /\ mail = NoMail

\* ArxivNotifier(date=date).run(skip_crawl, force_crawl) up to its first step
RunStart(date, skip_crawl, force_crawl) ==
    /\ run.pc = "idle"
    /\ run' = [run EXCEPT !.pc = IF skip_crawl THEN "match" ELSE "crawl",
                          !.date = date,
                          !.skip_crawl = skip_crawl, !.force_crawl = force_crawl]
    /\ UNCHANGED <<engineVars, scoreVars, loadVars, thr, configVars, digest_file, mail,
                   crawlVars>>

\* step1_crawl(force) up to the first wait of its crawler: an exception of
\* CrawlConfig(date) (the configuration cannot be read), raised before the
\* crawler exists, makes it return False; else the crawler runs to the start
\* of scrapy, or returns True with the gate closed
Step1Crawl(raises) ==
    /\ run.pc = "crawl"
    /\ IF raises
       THEN /\ run' = [run EXCEPT !.steps = Append(@, "crawl"), !.crawled = "False",
                                  !.pc = "done", !.result = "False"]
            /\ UNCHANGED <<storage, crawlVars>>
       ELSE /\ BeginRun(1, run.date, run.force_crawl)
            /\ run' = [run EXCEPT !.pc = "crawling"]
    /\ UNCHANGED <<engineVars, scoreVars, loaded, found, thr, configVars, digest_file, mail>>

\* crawler.run has returned: the end of step1_crawl and the test of its
\* result in run
Step1Return ==
    /\ run.pc = "crawling"
    /\ crawler[1].pc = "done"
    /\ run' = IF crawler[1].call.result
              THEN [run EXCEPT !.steps = Append(@, "crawl"), !.crawled = "True",
                               !.pc = "match"]
              ELSE [run EXCEPT !.steps = Append(@, "crawl"), !.crawled = "False",
                               !.pc = "done", !.result = "False"]
    /\ UNCHANGED <<engineVars, scoreVars, loadVars, thr, configVars, digest_file, mail,
                   crawlVars>>

\* while step 1 waits for scrapy, another process makes the call of this
\* run's crawler, ArxivCrawler(CrawlConfig(date=date)).run(force=False)
OtherCrawl ==
    /\ run.pc = "crawling"
    /\ crawler[1].pc = "scrapy"
    /\ crawler[2].pc = "idle"
    /\ BeginRun(2, run.date, FALSE)
    /\ UNCHANGED <<engineVars, scoreVars, loaded, found, thr, configVars, runVars, mail>>

\* step2_match() and the test of its result in run: an exception of
\* find_relevant_papers leaves run
Step2Match ==
    /\ run.pc = "match"
    /\ FindRelevantPapers(config.keywords, config.threshold, config.top_k)
    /\ run' = IF found'.outcome # "ok"
              THEN [run EXCEPT !.steps = Append(@, "match"), !.pc = "done",
                               !.result = "raised"]
              ELSE IF found'.result = <<>>
              THEN [run EXCEPT !.steps = Append(@, "match"), !.pc = "done",
                               !.result = "True"]
              ELSE [run EXCEPT !.steps = Append(@, "match"), !.pc = "summarize",
                               !.relevant_papers = found'.result]
    /\ UNCHANGED <<configVars, digest_file, mail, crawlVars>>

\* the digest of step3_summarize(papers): none without papers, the simple
\* report without an LLM key or when the summarizer raises
Digest(papers, llm_api_key, env) ==
    IF papers = <<>> THEN ""
    ELSE IF llm_api_key = "" THEN "simple report"
    ELSE IF env = "raised" THEN "simple report"
    ELSE "digest"

\* step3_summarize(relevant_papers)
Step3Summarize(env) ==
    /\ run.pc = "summarize"
    /\ run' = [run EXCEPT !.steps = Append(@, "summarize"), !.pc = "send",
                          !.digest = Digest(run.relevant_papers, config.llm_api_key, env)]
    /\ UNCHANGED <<engineVars, scoreVars, loadVars, thr, configVars, digest_file, mail,
                   crawlVars>>

\* the settings step4_send_email hands to send_paper_digest
MailSettingsOf(cfg) ==
    Settings(cfg.email_smtp_server, cfg.email_sender, cfg.email_password,
             cfg.email_recipients)

\* _save_digest_locally(digest) followed by return False: the digest written
\* to the local file, or the OSError of a file that cannot be written, which
\* leaves step4_send_email
SaveThenFalse(digest, file, writable) ==
    IF writable THEN [sent |-> "False", digest_file |-> digest, raised |-> FALSE]
    ELSE [sent |-> "none", digest_file |-> file, raised |-> TRUE]

\* an exception handler of step4_send_email that saves nothing
Step4RaisedNoSave(digest, file, writable) ==
    [sent |-> "False", digest_file |-> file, raised |-> FALSE]

\* the exception handler of step4_send_email: the digest saved, False
Step4Raised(digest, file, writable) == SaveThenFalse(digest, file, writable)

\* step4_send_email after send_paper_digest returned success: the digest
\* saved unless the mail was sent; the OSError of a save that fails is caught
\* by the exception handler, which saves again
Step4Returned(digest, file, success, writable) ==
    IF success THEN [sent |-> "True", digest_file |-> file, raised |-> FALSE]
    ELSE IF writable THEN SaveThenFalse(digest, file, writable)
    ELSE Step4Raised(digest, file, writable)

\* the end of step4_send_email and of run: run returns True whatever the step
\* returned, and an exception of the step leaves run
EndOfRun(r) ==
    IF r.raised
    THEN [run EXCEPT !.steps = Append(@, "send"), !.pc = "done", !.result = "raised"]
    ELSE [run EXCEPT !.steps = Append(@, "send"), !.sent = r.sent,
                     !.pc = "done", !.result = "True"]

\* step4_send_email(digest) up to the loop of send_email: without a digest
\* or with incomplete settings it returns False, as it does when
\* send_paper_digest raises an Exception before the loop; the end of step 4
\* is the end of run
Step4SendEmail(raises, writable) ==
    /\ run.pc = "send"
    /\ IF run.digest = ""
       THEN /\ run' = [run EXCEPT !.steps = Append(@, "send"), !.sent = "False",
                                  !.pc = "done", !.result = "True"]
            /\ UNCHANGED <<digest_file, mail>>
       ELSE IF ~Complete(MailSettingsOf(config))
       THEN \E r \in {SaveThenFalse(run.digest, digest_file, writable)} :
               /\ run' = EndOfRun(r)
               /\ digest_file' = r.digest_file
               /\ UNCHANGED mail
       ELSE IF raises
       THEN \E r \in {Step4Raised(run.digest, digest_file, writable)} :
               /\ run' = EndOfRun(r)
               /\ digest_file' = r.digest_file
               /\ UNCHANGED mail
       ELSE /\ mail' = SendStart(MailSettingsOf(config), DEFAULT_MAX_RETRIES)
            /\ run' = [run EXCEPT !.pc = "sending"]
            /\ UNCHANGED digest_file
    /\ UNCHANGED <<engineVars, scoreVars, loadVars, thr, configVars, crawlVars>>

\* send_email has returned: the end of step4_send_email and of run
Step4Return(writable) ==
    /\ run.pc = "sending"
    /\ mail.pc = "done"
    /\ \E r \in {Step4Returned(run.digest, digest_file, mail.result = "True", writable)} :
          /\ digest_file' = r.digest_file
          /\ run' = EndOfRun(r)
    /\ UNCHANGED <<engineVars, scoreVars, loadVars, thr, configVars, mail, crawlVars>>

\* KeyboardInterrupt at any place of run: no step catches it (their handlers
\* are except Exception), it leaves run, and main() exits.  The crawler call
\* or the send_email call the run is in ends with it.
Interrupt ==
    /\ run.pc \in {"crawl", "crawling", "match", "summarize", "send", "sending"}
    /\ run' = [run EXCEPT !.pc = "interrupted"]
    /\ crawler' = IF run.pc = "crawling" /\ crawler[1].pc \in {"scrapy", "check"}
                  THEN [crawler EXCEPT ![1].pc = "interrupted"] ELSE crawler
    /\ mail' = IF run.pc = "sending" /\ mail.pc = "attempt"
               THEN [mail EXCEPT !.pc = "interrupted"] ELSE mail
    /\ UNCHANGED <<engineVars, scoreVars, loadVars, thr, configVars, digest_file,
                   last_crawl_file, crawl>>

RunNext ==
    \/ \E date \in RunDates, skip_crawl \in BOOLEAN, force_crawl \in BOOLEAN :
          RunStart(date, skip_crawl, force_crawl)
    \/ \E raises \in BOOLEAN : Step1Crawl(raises)
    \/ OtherCrawl
    \/ \E p \in Crawlers : ScrapyItem(p)
    \/ \E p \in Crawlers, ok \in BOOLEAN : ScrapyExit(p, ok)
    \/ \E p \in Crawlers, ok \in BOOLEAN : CheckExit(p, ok)
    \/ Step1Return
    \/ Step2Match
    \/ \E env \in SummarizeEnvs : Step3Summarize(env)
    \/ \E raises \in BOOLEAN, writable \in BOOLEAN : Step4SendEmail(raises, writable)
    \/ \E outcome \in AttemptOutcomes : Attempt(outcome)
    \/ \E writable \in BOOLEAN : Step4Return(writable)
    \/ Interrupt

SpecRun == RunInit /\ [][RunNext]_vars

(***************************************************************************)
(* State functions the properties are stated with.                         *)
(***************************************************************************)
\* the last match_papers call returned (did not raise)
Returned == call.made /\ call.outcome = "ok"

\* the final score the engine, with the statistics it holds, computes for the
\* i-th paper in memory
FinalScore(i) == ScorePaper(keywords, EngineStats, pool[i]).score

\* the papers whose final score reaches the threshold of the last call
Qualifying == {i \in 1..Len(pool) : FinalScore(i) >= call.threshold}

\* the papers in the output of the last call
InOutput == {call.result[j].paper : j \in 1..Len(call.result)}

\* no configured keyword has a word-boundary match in the i-th paper's title or
\* in its summary
NoKeywordIn(i) ==
    \A k \in Keys(keywords) :
        /\ CountKeywordMatches(Lower(pool[i].title), k) = 0
        /\ CountKeywordMatches(Lower(pool[i].summary), k) = 0

RECURSIVE ObjPapers(_, _)
\* the JSON objects among the first n lines of a file, as papers, in order
ObjPapers(lines, n) ==
    IF n = 0 THEN <<>>
    ELSE ObjPapers(lines, n - 1)
         \o (IF lines[n].kind = "obj" THEN <<ToPaper(lines[n])>> ELSE <<>>)

RECURSIVE Records(_, _)
\* the well-formed records of the first c entries of the directory, in load order
Records(cats, c) ==
    IF c = 0 THEN <<>>
    ELSE Records(cats, c - 1)
         \o (IF cats[c].kind = "file"
             THEN ObjPapers(cats[c].lines, Len(cats[c].lines)) ELSE <<>>)

\* the well-formed records in storage, in load order
StoredRecords == Records(storage.cats, Len(storage.cats))

\* the place of the first record with this identifier
FirstWith(recs, id) ==
    CHOOSE i \in 1..Len(recs) :
        recs[i].id = id /\ \A h \in 1..(i - 1) : recs[h].id # id

\* load_papers_from_directory returned a collection
LoadReturned == loaded.made /\ loaded.outcome = "ok"

(***************************************************************************)
(* Properties.                                                             *)
(***************************************************************************)
\* C1: an engine never holds a weight that is zero, negative or not a number:
\* constructing it with such a weight fails, so no such engine reaches score().
\* (The code accepts every weight; this is violated.)
C1_InvalidWeightRejected ==
    configured =>
        \A i \in 1..Len(keywords) : keywords[i].numeric /\ keywords[i].weight > 0

\* C5: with top_k unlimited, the output of score() holds exactly the documents
\* whose final score is >= threshold, each once.
C5_ThresholdFilter ==
    (Returned /\ ~Limited(call.top_k)) =>
        /\ InOutput = Qualifying
        /\ Len(call.result) = Cardinality(InOutput)

\* C5 happens: a document scoring exactly the threshold is in the output and a
\* document scoring below it is not
C5_Witness ==
    /\ Returned /\ ~Limited(call.top_k)
    /\ \E i \in InOutput : FinalScore(i) = call.threshold
    /\ \E i \in 1..Len(pool) : FinalScore(i) < call.threshold /\ i \notin InOutput

\* C6: the output of score() is sorted by final score, non-increasing.
C6_SortedDescending ==
    Returned =>
        \A j \in 1..(Len(call.result) - 1) :
            FinalScore(call.result[j].paper) >= FinalScore(call.result[j + 1].paper)

\* C6 happens: the sort moved a higher-scoring document in front of one that
\* came before it in the input
C6_Witness ==
    /\ Returned
    /\ \E j \in 1..(Len(call.result) - 1) :
          /\ call.result[j].paper > call.result[j + 1].paper
          /\ FinalScore(call.result[j].paper) > FinalScore(call.result[j + 1].paper)

\* C7: the output is at most top_k long when top_k is a positive integer, and
\* holds every document passing the threshold when top_k is None, 0 or negative.
C7_TopKLength ==
    Returned =>
        /\ (~call.top_k.none /\ call.top_k.k > 0) => Len(call.result) <= call.top_k.k
        /\ (call.top_k.none \/ call.top_k.k <= 0) =>
              /\ Len(call.result) = Cardinality(Qualifying)
              /\ InOutput = Qualifying

\* C7 happens: a negative top_k, and all of several qualifying documents are
\* returned
C7_Witness ==
    /\ Returned
    /\ ~call.top_k.none /\ call.top_k.k < 0
    /\ Cardinality(Qualifying) >= 2
    /\ Len(call.result) = Cardinality(Qualifying)

\* C8: when top_k is positive and more than top_k documents pass the threshold,
\* the output has exactly top_k entries and each of them scores at least as high
\* as every qualifying document that was cut.
C8_TruncationKeepsBest ==
    (Returned /\ ~call.top_k.none /\ call.top_k.k > 0
       /\ Cardinality(Qualifying) > call.top_k.k) =>
        /\ Len(call.result) = call.top_k.k
        /\ Cardinality(InOutput) = call.top_k.k
        /\ InOutput \subseteq Qualifying
        /\ \A i \in InOutput : \A c \in Qualifying \ InOutput :
              FinalScore(i) >= FinalScore(c)

\* C8 happens: top_k = 1 cut a qualifying document that came first in the input
\* and scored lower than the one kept
C8_Witness ==
    /\ Returned /\ call.top_k = TopK(1)
    /\ Len(call.result) = 1
    /\ \E c \in Qualifying \ InOutput :
          /\ c < call.result[1].paper
          /\ FinalScore(c) < FinalScore(call.result[1].paper)

\* C9: after score() returns, a document that passed the filter holds the final
\* score of this call, and at any time a document's score field is the final
\* score of the most recent call in which it passed the filter, 0 before any
\* (so a call in which it does not pass leaves the field as it was).
C9_ScoreFieldFrame ==
    /\ \A i \in 1..Len(pool) : pool[i].relevance_score = last_pass[i]
    /\ Returned => \A i \in Qualifying : pool[i].relevance_score = FinalScore(i)

\* C9 happens: a document did not pass in the last call and still holds the
\* score of an earlier call, which differs from this call's final score
C9_Witness ==
    /\ Returned
    /\ \E i \in 1..Len(pool) :
          /\ i \notin Qualifying
          /\ pool[i].relevance_score # 0
          /\ pool[i].relevance_score # FinalScore(i)

\* C10: a document in which no configured keyword has a word-boundary match in
\* the title or in the abstract gets the final score 0 and a match detail that
\* lists no keyword.
C10_NoMatchScoresZero ==
    configured =>
        \A i \in 1..Len(pool) :
            NoKeywordIn(i) =>
                LET s == ScorePaper(keywords, EngineStats, pool[i])
                IN  /\ ~s.err
                    /\ s.score = 0
                    /\ s.details.title_keywords = <<>>
                    /\ s.details.abstract_keywords = <<>>
                    /\ s.details.all_matched = {}
                    /\ s.details.title_score = 0
                    /\ s.details.abstract_score = 0

\* C10 happens: a returned call in which a document holds a keyword's letters
\* only inside a longer word and matches none, beside a document that matches
C10_Witness ==
    /\ Returned
    /\ \E i \in 1..Len(pool) :
          /\ NoKeywordIn(i)
          /\ pool[i].title = <<"a", "b">>
          /\ <<"a">> \in Keys(keywords)
    /\ \E i \in 1..Len(pool) : ~NoKeywordIn(i) /\ FinalScore(i) > 0

\* C3: a malformed record (a line that is not valid JSON, or valid JSON that is
\* not an object) is skipped with a diagnostic and never aborts the load: the
\* load returns, and from every file every well-formed record is loaded.
\* (A valid JSON value that is not an object aborts the load; this is violated.)
C3_MalformedSkipped ==
    loaded.made =>
        /\ loaded.outcome = "ok"
        /\ \A c \in 1..Len(storage.cats) :
              storage.cats[c].kind = "file" =>
                  LET r == LoadPapersFromJsonl(storage.cats[c].lines)
                  IN  /\ ~r.err
                      /\ r.papers = ObjPapers(storage.cats[c].lines,
                                              Len(storage.cats[c].lines))
        /\ \A i \in 1..Len(StoredRecords) :
              \E j \in 1..Len(loaded.papers) : loaded.papers[j].id = StoredRecords[i].id

\* C4: the collection load_papers_from_directory returns has pairwise distinct
\* identifiers; for every identifier among the loaded records it holds the first
\* record with that identifier, and nothing else, in load order.
C4_DedupFirstOccurrence ==
    LoadReturned =>
        LET recs == StoredRecords
            papers == loaded.papers
        IN  /\ \A j, k \in 1..Len(papers) : j # k => papers[j].id # papers[k].id
            /\ \A i \in 1..Len(recs) :
                  \E j \in 1..Len(papers) : papers[j] = recs[FirstWith(recs, recs[i].id)]
            /\ \A j \in 1..Len(papers) :
                  /\ \E i \in 1..Len(recs) : recs[i].id = papers[j].id
                  /\ papers[j] = recs[FirstWith(recs, papers[j].id)]
            /\ \A j, k \in 1..Len(papers) :
                  j < k => FirstWith(recs, papers[j].id) < FirstWith(recs, papers[k].id)

\* C4 happens: an identifier occurs in two category files with another identifier
\* in between, and the load returned
C4_Witness ==
    /\ LoadReturned
    /\ Len(storage.cats) = 2
    /\ \E i, m, k \in 1..Len(StoredRecords) :
          /\ i < m /\ m < k
          /\ StoredRecords[i].id = StoredRecords[k].id
          /\ StoredRecords[m].id # StoredRecords[i].id
    /\ \A c \in 1..2 : storage.cats[c].kind = "file" /\ storage.cats[c].lines # <<>>
    /\ Len(loaded.papers) = 2

\* C2: when two score() calls run concurrently on one engine over disjoint
\* collections, each returns the scores and the ranking it returns when run
\* alone.  (The statistics of the two calls mix in the engine; this is violated.)
C2_ConcurrentCallsIndependent ==
    \A t \in Threads :
        thr[t].pc = "done" =>
            LET fresh == [i \in 1..Len(thr[t].papers) |->
                            [thr[t].papers[i] EXCEPT !.relevance_score = 0]]
                alone == MatchPapers(keywords, fresh, thr[t].threshold, thr[t].top_k)
            IN  /\ alone.outcome = "ok"
                /\ thr[t].result = alone.result
                /\ thr[t].papers = alone.papers

\* C11 as stated: with no keyword configured, score() on a non-empty
\* collection returns nothing when the threshold is positive, and with
\* threshold 0 returns every document of the collection.
C11_Original ==
    (Returned /\ keywords = <<>> /\ pool # <<>>) =>
        /\ call.threshold > 0 => call.result = <<>>
        /\ call.threshold = 0 =>
              /\ Len(call.result) = Len(pool)
              /\ InOutput = 1..Len(pool)

\* C11 as amended: with no keyword configured, score() on a non-empty
\* collection returns nothing when the threshold is positive; with threshold
\* 0 it returns every document of the collection, each with score 0 and in
\* the order of the collection, when top_k does not limit the output, and the
\* first top_k of them when it does.
C11_EmptyKeywords ==
    (Returned /\ keywords = <<>> /\ pool # <<>>) =>
        /\ call.threshold > 0 => call.result = <<>>
        /\ call.threshold = 0 =>
              /\ Len(call.result) =
                    (IF Limited(call.top_k) THEN Min(call.top_k.k, Len(pool)) ELSE Len(pool))
              /\ \A j \in 1..Len(call.result) :
                    /\ call.result[j].paper = j
                    /\ FinalScore(j) = 0

\* C11 happens: at threshold 0 and with top_k 1 an engine without keywords
\* returned the first of the two documents of a collection
C11_Witness ==
    /\ Returned /\ keywords = <<>>
    /\ call.threshold = 0 /\ call.top_k = TopK(1)
    /\ Len(pool) = 2 /\ Len(call.result) = 1
    /\ call.result[1].paper = 1

\* the keywords with the weight of the i-th raised by one
RaisedWeight(kws, i) == [kws EXCEPT ![i].weight = @ + 1]

\* the i-th keyword matches the d-th paper in memory, in the title or in the
\* summary
MatchesPaper(i, d) ==
    \/ CountKeywordMatches(Lower(pool[d].title), keywords[i].kw) > 0
    \/ CountKeywordMatches(Lower(pool[d].summary), keywords[i].kw) > 0

\* C12: raising the weight of one keyword that matches a document, the
\* collection, the other weights and the texts held fixed, never lowers that
\* document's final score.  (The engine accepts negative weights, under which
\* a raise lowers the score; this is violated.)
C12_WeightMonotone ==
    Returned =>
        \A d \in 1..Len(pool) : \A i \in 1..Len(keywords) :
            MatchesPaper(i, d) =>
                ScorePaper(RaisedWeight(keywords, i), EngineStats, pool[d]).score
                    >= FinalScore(d)

\* the details score_paper gives for the d-th paper in memory
Details(d) == ScorePaper(keywords, EngineStats, pool[d]).details

\* the keywords matched in both fields of the d-th paper
Overlap(d) == Range(Details(d).title_keywords) \cap Range(Details(d).abstract_keywords)

\* every keyword occurs as often in the title of the d-th paper as in the
\* summary of the e-th, and the two fields have the same number of tokens
SameMatches(d, e) ==
    /\ \A k \in Keys(keywords) :
          CountKeywordMatches(Lower(pool[d].title), k)
              = CountKeywordMatches(Lower(pool[e].summary), k)
    /\ Len(Tokenize(pool[d].title)) = Len(Tokenize(pool[e].summary))

\* C13: of two documents scored under the same statistics, one matching only in
\* the title and one matching the same keywords as often only in the abstract,
\* the matching fields equally long, the first scores exactly TITLE_WEIGHT = 3
\* times the second.
C13_TitleBoost ==
    Returned =>
        \A d, e \in 1..Len(pool) :
            (/\ Details(d).title_keywords # <<>> /\ Details(d).abstract_keywords = <<>>
             /\ Details(e).title_keywords = <<>> /\ Details(e).abstract_keywords # <<>>
             /\ SameMatches(d, e)) =>
                FinalScore(d) = TITLE_WEIGHT * FinalScore(e)

\* C13 happens: a title-only and an abstract-only match of two keywords in one
\* collection, both scored above 0 and both holding their score
C13_Witness ==
    /\ Returned
    /\ \E d, e \in 1..Len(pool) :
          /\ Details(d).title_keywords = <<<<"a">>, <<"b">>>>
          /\ Details(d).abstract_keywords = <<>>
          /\ Details(e).title_keywords = <<>>
          /\ Details(e).abstract_keywords = <<<<"a">>, <<"b">>>>
          /\ SameMatches(d, e)
          /\ FinalScore(e) > 0
          /\ pool[d].relevance_score = TITLE_WEIGHT * pool[e].relevance_score
          /\ pool[e].relevance_score = FinalScore(e)

\* C14: a document in which keywords match in both title and abstract scores
\* strictly higher than the sum of its two field scores, which is what it
\* scores without the bonus, and strictly higher than a document of the same
\* collection that has one of its fields and no match in the other; without
\* such keywords the final score is that sum.  (Under a weight of 0 or below
\* the bonus does not raise the score; this is violated.)
C14_OverlapBonus ==
    Returned =>
        \A d \in 1..Len(pool) :
            /\ Overlap(d) = {} =>
                  FinalScore(d) = Details(d).title_score + Details(d).abstract_score
            /\ Overlap(d) # {} =>
                  /\ FinalScore(d) > Details(d).title_score + Details(d).abstract_score
                  /\ \A e \in 1..Len(pool) :
                        (\/ /\ pool[e].title = pool[d].title
                            /\ Details(e).abstract_keywords = <<>>
                         \/ /\ pool[e].summary = pool[d].summary
                            /\ Details(e).title_keywords = <<>>) =>
                            FinalScore(d) > FinalScore(e)

\* max(self.avg_doc_len, 1), the divisor of doc_len in _calculate_bm25_score
AvgDivisor == AtLeastOne(avg_doc_len)

\* tf_normalized for a divisor of exactly 1:
\* tf * (K1 + 1) / (tf + K1 * (1 - B + B * doc_len))
TfNormalizedAtOne(tf, doc_len) ==
    (tf * (K1_NUM + K1_DEN) * B_DEN * FP)
        \div (tf * K1_DEN * B_DEN + K1_NUM * ((B_DEN - B_NUM) + B_NUM * doc_len))

\* C16: score() on a collection of zero documents returns an empty sequence
\* and raises nothing; the statistics pass divides by at least 1, and in every
\* scoring step the average length used as divisor is at least 1, so that
\* tf_normalized is never below its value for an average length of 1.
C16_NoDivisionFault ==
    call.made =>
        /\ pool = <<>> => (call.outcome = "ok" /\ call.result = <<>> /\ doc_count = 0)
        /\ avg_doc_len.den >= 1
        /\ AvgDivisor.den >= 1 /\ AvgDivisor.num >= AvgDivisor.den
        /\ \A d \in 1..Len(pool) : \A k \in Keys(keywords) :
              \A text \in {pool[d].title, pool[d].summary} :
                  CountKeywordMatches(Lower(text), k) > 0 =>
                      TfNormalized(EngineStats, CountKeywordMatches(Lower(text), k),
                                   Len(Tokenize(text)))
                          >= TfNormalizedAtOne(CountKeywordMatches(Lower(text), k),
                                               Len(Tokenize(text)))

\* C16 happens: a collection with an average length below 1 in which a document
\* matched a keyword and was scored
C16_Witness ==
    /\ Returned
    /\ doc_count = 2 /\ avg_doc_len.num < avg_doc_len.den
    /\ \E d \in 1..Len(pool) :
          /\ Details(d).title_keywords # <<>>
          /\ pool[d].relevance_score > 0
          /\ pool[d].relevance_score = FinalScore(d)

\* copies of the papers as the loader builds them, relevance_score 0.0
Fresh(papers) == [i \in 1..Len(papers) |-> [papers[i] EXCEPT !.relevance_score = 0]]

\* C15: a score() call returns the documents, scores and order that a newly
\* constructed engine returns for the same configuration, threshold, top_k and
\* collection, whatever calls the engine served before; and a call with the
\* inputs of the call before it returns what that call returned.
C15_Idempotent ==
    thr[1].pc = "done" =>
        LET alone == MatchPapers(keywords, Fresh(thr[1].papers),
                                 thr[1].threshold, thr[1].top_k)
        IN  /\ alone.outcome = "ok"
            /\ thr[1].result = alone.result
            /\ thr[1].papers = alone.papers
            /\ (/\ call.made
                /\ call.threshold = thr[1].threshold
                /\ call.top_k = thr[1].top_k
                /\ Fresh(pool) = Fresh(thr[1].papers)) =>
                    (thr[1].result = call.result /\ thr[1].papers = pool)

\* C15 happens: the second of two calls with the same inputs returned the same
\* two documents in the same order, the sort having moved the second to the
\* front
C15_Witness ==
    /\ thr[1].pc = "done" /\ call.made /\ ncalls = 2
    /\ call.threshold = thr[1].threshold /\ call.top_k = thr[1].top_k
    /\ Fresh(pool) = Fresh(thr[1].papers)
    /\ Len(thr[1].result) = 2
    /\ thr[1].result[1].paper = 2
    /\ thr[1].result = call.result
    /\ thr[1].papers = pool

\* C17: in a score() call no document is scored before the statistics pass has
\* finished, and from then on the document count, the average length and the
\* document frequencies the engine holds are those of this call's collection
\* alone, whatever collections the earlier calls had.
C17_StatsOfThisCall ==
    /\ thr[1].pc \in {"count", "reset", "stats"} =>
          /\ thr[1].scored = <<>>
          /\ thr[1].papers = Fresh(thr[1].papers)
    /\ thr[1].pc \in {"score", "done", "raised"} =>
          EngineStats = BuildCorpusStats(keywords, thr[1].papers)
    /\ (thr[1].pc = "idle" /\ call.made) =>
          EngineStats = BuildCorpusStats(keywords, pool)

\* C17 happens: in a second call, on a collection with other statistics than
\* the collection of the call before, a document has been scored
C17_Witness ==
    /\ ncalls = 2 /\ call.made
    /\ thr[1].pc = "score" /\ thr[1].i > 1 /\ thr[1].scored # <<>>
    /\ BuildCorpusStats(keywords, pool).doc_count # doc_count
    /\ BuildCorpusStats(keywords, pool).keyword_doc_freq # keyword_doc_freq
    /\ BuildCorpusStats(keywords, pool).avg_doc_len # avg_doc_len

\* the keyword stands in the text at offset p, letter case aside
OccursAt(text, kw, p) ==
    /\ p + Len(kw) <= Len(text)
    /\ \A j \in 1..Len(kw) : LowerChar(text[p + j]) = LowerChar(kw[j])

\* the occurrence at offset p is a whole word: the characters next to it, if
\* any, are not \w characters
WholeWordAt(text, kw, p) ==
    /\ OccursAt(text, kw, p)
    /\ ~WordAt(text, p)
    /\ ~WordAt(text, p + Len(kw) + 1)

\* the number of whole-word occurrences of the keyword in the text
WholeWords(text, kw) ==
    Cardinality({p \in 0..Len(text) : WholeWordAt(text, kw, p)})

\* C18: a configured keyword matches a text exactly at its whole-word
\* occurrences, letter case aside: never inside a longer word, and at every
\* occurrence that other than \w characters or the ends of the text delimit,
\* also when the keyword begins or ends with a character that is not
\* alphanumeric.  (Such a keyword is matched by its neighbours being \w
\* characters; this is violated.)
C18_WholeWordMatch ==
    configured =>
        \A d \in 1..Len(pool) : \A k \in Keys(keywords) :
            \A text \in {pool[d].title, pool[d].summary} :
                /\ CountKeywordMatches(Lower(text), k) = WholeWords(text, k)
                /\ CountKeywordMatches(text, k) = WholeWords(text, k)

\* the keys of the three tables are the lowercased terms of the argument, each
\* once, a list's terms with the weight 1.0
KeysNormalized(cfg, kws, patterns, freq) ==
    /\ \A i \in 1..Len(kws) : kws[i].kw = Lower(kws[i].kw)
    /\ \A i, j \in 1..Len(kws) : i # j => kws[i].kw # kws[j].kw
    /\ Keys(kws) = {Lower(cfg.items[i].kw) : i \in 1..Len(cfg.items)}
    /\ cfg.form = "list" => \A i \in 1..Len(kws) : kws[i].numeric /\ kws[i].weight = 1
    /\ DOMAIN patterns = Keys(kws)
    /\ \A k \in Keys(kws) : patterns[k] = k
    /\ DOMAIN freq = Keys(kws)

\* the entry of the map under the lowercased key of the i-th supplied item
Kept(cfg, kws, i) == kws[IndexOf(kws, Lower(cfg.items[i].kw), 1)]

\* C19 as claimed: configure turns a list or a mapping into one map with
\* lowercase keys, a list's terms with weight 1.0, a mapping keeping each
\* supplied weight, and the patterns and the document-frequency table have the
\* key set of the map.
C19_Original ==
    [][\A cfg \in TextConfigs :
          Configure(cfg) =>
              /\ KeysNormalized(cfg, keywords', keyword_patterns', keyword_doc_freq')
              /\ cfg.form = "dict" =>
                    \A i \in 1..Len(cfg.items) :
                        /\ Kept(cfg, keywords', i).weight = cfg.items[i].weight
                        /\ Kept(cfg, keywords', i).numeric = cfg.items[i].numeric]_vars

\* C19: configure turns a list or a mapping into one map with lowercase keys,
\* a list's terms with weight 1.0, a mapping keeping each supplied weight except
\* that of keys which coincide after lowercasing the weight supplied last is
\* kept, and the patterns and the document-frequency table have the key set of
\* the map.
C19_Normalized ==
    [][\A cfg \in TextConfigs :
          Configure(cfg) =>
              /\ KeysNormalized(cfg, keywords', keyword_patterns', keyword_doc_freq')
              /\ cfg.form = "dict" =>
                    \A i \in 1..Len(cfg.items) :
                        (\A j \in (i + 1)..Len(cfg.items) :
                            Lower(cfg.items[j].kw) # Lower(cfg.items[i].kw)) =>
                            /\ Kept(cfg, keywords', i).weight = cfg.items[i].weight
                            /\ Kept(cfg, keywords', i).numeric = cfg.items[i].numeric]_vars

\* C19 happens: an engine constructed from the mapping {"A": 2, "a": 3, "B": 2}
\* holds the keys a and b with the weights 3 and 2
C19_Witness ==
    /\ configured
    /\ keywords = <<Entry(<<"a">>, 3, TRUE), Entry(<<"b">>, 2, TRUE)>>
    /\ DOMAIN keyword_patterns = {<<"a">>, <<"b">>}
    /\ DOMAIN keyword_doc_freq = {<<"a">>, <<"b">>}

\* the storage holds no documents: the jsonl directory is missing, or none of
\* its entries is a directory with a papers.jsonl
NoDocuments ==
    \/ ~storage.exists
    \/ \A c \in 1..Len(storage.cats) : storage.cats[c].kind # "file"

\* C20: when the storage holds no documents, the loader returns an empty
\* collection and raises nothing, and find_relevant_papers returns an empty
\* result; whenever the loaded collection is empty, no engine is constructed
\* and match_papers is not run.
C20_NothingToRank ==
    /\ (loaded.made /\ NoDocuments) => (loaded.outcome = "ok" /\ loaded.papers = <<>>)
    /\ (found.made /\ NoDocuments) => (found.outcome = "ok" /\ found.result = <<>>)
    /\ (found.made /\ loaded.papers = <<>>) =>
          /\ found.result = <<>>
          /\ ~configured /\ ~call.made /\ ncalls = 0
          /\ doc_count = 0 /\ keywords = <<>>

\* C20 happens: find_relevant_papers returned on a jsonl directory whose two
\* entries hold no papers.jsonl
C20_Witness ==
    /\ found.made /\ found.outcome = "ok" /\ found.result = <<>>
    /\ storage.exists /\ Len(storage.cats) = 2
    /\ storage.cats[1].kind = "notdir" /\ storage.cats[2].kind = "nofile"
    /\ loaded.made /\ loaded.papers = <<>>
    /\ ~configured

\* C21: in the match detail of every scored document, all_matched is the union
\* of title_keywords and abstract_keywords, neither list names a keyword twice,
\* and keyword_weights has the keywords of all_matched as keys, each with the
\* weight configured for it.
C21_DetailsConsistent ==
    Returned =>
        \A j \in 1..Len(call.result) :
            LET det == call.result[j].details
            IN  /\ det.all_matched
                     = Range(det.title_keywords) \cup Range(det.abstract_keywords)
                /\ \A h, l \in 1..Len(det.title_keywords) :
                      h # l => det.title_keywords[h] # det.title_keywords[l]
                /\ \A h, l \in 1..Len(det.abstract_keywords) :
                      h # l => det.abstract_keywords[h] # det.abstract_keywords[l]
                /\ DOMAIN det.keyword_weights = det.all_matched
                /\ det.all_matched \subseteq Keys(keywords)
                /\ \A i \in 1..Len(keywords) :
                      keywords[i].kw \in det.all_matched =>
                          det.keyword_weights[keywords[i].kw] = keywords[i].weight

\* C21 happens: a returned document matched one keyword in the title only and
\* another in the abstract only, the two under different weights
C21_Witness ==
    /\ Returned
    /\ \E j \in 1..Len(call.result) :
          LET det == call.result[j].details
          IN  /\ det.title_keywords = << <<"a">> >>
              /\ det.abstract_keywords = << <<"b">> >>
              /\ det.all_matched = {<<"a">>, <<"b">>}
              /\ det.keyword_weights[<<"a">>] = 2
              /\ det.keyword_weights[<<"b">>] = 1

\* C24: documents with equal final score stand in the output of score() in the
\* order they have in the input collection.
C24_StableTies ==
    Returned =>
        \A j, k \in 1..Len(call.result) :
            (j < k /\ FinalScore(call.result[j].paper) = FinalScore(call.result[k].paper))
                => call.result[j].paper < call.result[k].paper

\* C24 happens: two documents with the same score above 0 were returned, in
\* input order
C24_Witness ==
    /\ Returned
    /\ Len(call.result) = 2
    /\ FinalScore(call.result[1].paper) = FinalScore(call.result[2].paper)
    /\ FinalScore(call.result[1].paper) > 0
    /\ call.result[1].paper = 1 /\ call.result[2].paper = 2
    /\ pool[1].relevance_score = pool[2].relevance_score

\* the documents in memory in which the scoring pass finds the keyword k, in
\* the title or in the summary
FoundIn(k) ==
    {d \in 1..Len(pool) :
        \/ CountKeywordMatches(Lower(pool[d].title), k) > 0
        \/ CountKeywordMatches(Lower(pool[d].summary), k) > 0}

\* C29: after the statistics pass, the document frequency of every configured
\* keyword is the number of documents in which the scoring pass finds it in the
\* title or in the summary, and lies between 0 and the document count, also for
\* keywords of several words.  (The pass counts matches in the title and the
\* summary joined by a space, where a keyword of several words is found across
\* the joint; this is violated.)
C29_DocFreqCountsMatches ==
    call.made =>
        \A k \in Keys(keywords) :
            /\ keyword_doc_freq[k] = Cardinality(FoundIn(k))
            /\ 0 <= keyword_doc_freq[k] /\ keyword_doc_freq[k] <= doc_count

\* the places of the stored records that lack the identifier field, which are
\* the records loaded with the identifier ""
WithoutId == {i \in 1..Len(StoredRecords) : StoredRecords[i].id = ""}

\* C30: a stored record without identifier is loaded with the identifier "", so
\* of the records without identifier the returned collection holds the first
\* in load order and no other, whatever their titles.
C30_MissingIdCollapse ==
    LoadReturned =>
        /\ Cardinality({j \in 1..Len(loaded.papers) : loaded.papers[j].id = ""}) <= 1
        /\ \A i \in WithoutId :
              IF \A h \in WithoutId : i <= h
              THEN \E j \in 1..Len(loaded.papers) : loaded.papers[j] = StoredRecords[i]
              ELSE \A j \in 1..Len(loaded.papers) : loaded.papers[j] # StoredRecords[i]
        /\ \A c \in 1..Len(storage.cats) : \A n \in 1..Len(storage.cats[c].lines) :
              (storage.cats[c].kind = "file" /\ storage.cats[c].lines[n].kind = "obj"
                 /\ ~storage.cats[c].lines[n].has_id) =>
                  \E i \in WithoutId :
                      StoredRecords[i].title = storage.cats[c].lines[n].title

\* C30 happens: two records without identifier, of different titles, in two
\* files, and the returned collection holds the first of them only
C30_Witness ==
    /\ LoadReturned
    /\ Len(storage.cats) = 2
    /\ Cardinality(WithoutId) = 2
    /\ \E i, k \in WithoutId : StoredRecords[i].title # StoredRecords[k].title
    /\ \A c \in 1..2 : storage.cats[c].kind = "file" /\ Len(storage.cats[c].lines) = 1
    /\ Len(loaded.papers) = 1
    /\ loaded.papers[1] = StoredRecords[1]

\* the format in which a value of MATCHING_KEYWORDS is written
Format(value) ==
    CASE Strip(value) = <<>> -> "blank"
      [] JsonLoads(value).ok /\ JsonLoads(value).value.type = "list" -> "JSON list"
      [] JsonLoads(value).ok /\ JsonLoads(value).value.type = "dict" -> "JSON object"
      [] JsonLoads(value).ok -> "JSON scalar"
      [] "," \in Range(value) -> "comma-separated"
      [] OTHER -> "single value"

SupportedFormats == {"JSON list", "JSON object", "comma-separated", "single value"}

\* a keyword with its weight
Weighted(kw, weight) == [kw |-> kw, weight |-> weight]

\* the keywords that a value in a supported format gives, each with its
\* weight: 1.0 where the format has no weights
GivenIn(value) ==
    CASE Format(value) = "JSON list" ->
            {Weighted(item.chars, 1) : item \in Range(JsonLoads(value).value.items)}
      [] Format(value) = "JSON object" ->
            {Weighted(e.kw, e.weight) : e \in Range(JsonLoads(value).value.items)}
      [] Format(value) = "comma-separated" ->
            {Weighted(Strip(part), 1) :
                part \in {p \in Range(SplitOn(value, ",")) : Strip(p) # <<>>}}
      [] OTHER -> {Weighted(Strip(value), 1)}

\* the keywords of a Config, each with its weight
KeywordsOf(cfg) == {Weighted(e.kw, e.weight) : e \in Range(cfg.keywords.items)}

\* C22: whenever MATCHING_KEYWORDS holds a non-empty value in a supported
\* format (JSON list, JSON object, comma-separated list, single plain value),
\* the keywords of the Config that get_config returns are the ones the
\* variable gives, whatever the YAML file holds.
C22_EnvPriority ==
    [][(GetConfig /\ Format(environ) \in SupportedFormats) =>
          KeywordsOf(config') = GivenIn(environ)]_vars

\* the outcome of the last attempt made, "none" when none was made
LastOutcome == IF mail.outcomes = <<>> THEN "none" ELSE mail.outcomes[Len(mail.outcomes)]

\* what holds of send_email at every moment
SendEmailSafe ==
    /\ Len(mail.outcomes) <= Max(mail.max_retries, 0)
    /\ \A i \in 1..(Len(mail.outcomes) - 1) :
          mail.outcomes[i] \notin {"sent", "SMTPAuthenticationError"}
    /\ mail.pc = "attempt" =>
          /\ Len(mail.outcomes) < mail.max_retries
          /\ mail.attempt = Len(mail.outcomes) + 1
    /\ mail.pc = "done" =>
          /\ mail.result \in {"True", "False"}
          /\ mail.result = "True" <=> LastOutcome = "sent"
          /\ (mail.result = "False" /\ Complete(mail.settings)
                /\ LastOutcome # "SMTPAuthenticationError") =>
                Len(mail.outcomes) = Max(mail.max_retries, 0)
          /\ ~Complete(mail.settings) => mail.outcomes = <<>>

\* C26: send_email terminates and makes at most max_retries attempts; no
\* attempt follows a sent mail (True) or an authentication failure (False at
\* once); any other failed attempt is followed by another until max_retries
\* attempts are made, and then the result is False; the result is True only if
\* an attempt sent the mail; with incomplete settings no attempt is made.
C26_SendTerminates ==
    /\ []SendEmailSafe
    /\ (mail.pc = "attempt") ~> (mail.pc = "done")

\* C26 happens: send_email returned False after three failed attempts, none
\* of them an authentication failure
C26_Witness ==
    /\ mail.pc = "done" /\ mail.result = "False"
    /\ Complete(mail.settings) /\ mail.max_retries = 3
    /\ mail.outcomes = <<"SMTPException", "OSError", "Exception">>

\* C27: a crawler run for a date that is not forced crawls nothing, deletes
\* no data and returns True when the recorded last crawl date is that date;
\* the date is recorded only by a run whose crawl and duplicate check both
\* succeeded, so the run that follows a failed run, for the same date and not
\* forced, crawls again; a forced run always crawls.
C27_CrawlDateGate ==
    \A k \in 1..Len(crawl) :
        /\ (~crawl[k].force /\ crawl[k].before = crawl[k].date) =>
              (~crawl[k].crawled /\ crawl[k].unlinked = 0 /\ crawl[k].result)
        /\ crawl[k].recorded => (crawl[k].scrapy = "ok" /\ crawl[k].duplicates = "ok")
        /\ (k > 1 /\ ~crawl[k - 1].result /\ crawl[k - 1].date = crawl[k].date
              /\ ~crawl[k].force) => crawl[k].crawled
        /\ crawl[k].force => crawl[k].crawled

\* the steps of a run, in the order of the driver
StepOrder == <<"crawl", "match", "summarize", "send">>

IsPrefix(s, t) == Len(s) <= Len(t) /\ \A i \in 1..Len(s) : s[i] = t[i]

\* the run has called this step
Called(step) == step \in Range(run.steps)

\* the papers that step2_match returned, as places in the loaded collection
MatchedPapers == {found.result[j].paper : j \in 1..Len(found.result)}

\* C23: when no keywords are configured, step2_match returns all loaded
\* papers, as its warning announces.
C23_AllPapersWithoutKeywords ==
    (Called("match") /\ config.keywords.items = <<>>) =>
        /\ found.outcome = "ok"
        /\ Len(found.result) = Len(loaded.papers)
        /\ MatchedPapers = 1..Len(loaded.papers)

\* C25: the steps of a run happen in the order crawl, match, summarize, send;
\* matching starts only after the crawl succeeded or was skipped; after a
\* failed crawl the run ends with False and no other step; when matching
\* yields no papers the run ends with True without summarizing or sending;
\* otherwise it summarizes, then sends, and ends with True whatever the send
\* step returned.
C25_StepOrder ==
    /\ IsPrefix(run.steps, IF run.skip_crawl THEN Tail(StepOrder) ELSE StepOrder)
    /\ Called("match") => (run.skip_crawl \/ run.crawled = "True")
    /\ run.crawled = "False" =>
          (run.pc = "done" /\ run.result = "False" /\ run.steps = <<"crawl">>)
    /\ (run.pc = "done" /\ Called("match")) =>
          IF found.outcome = "ok" /\ found.result = <<>>
          THEN run.result = "True" /\ ~Called("summarize") /\ ~Called("send")
          ELSE /\ run.result = "True"
               /\ Called("summarize") /\ Called("send")
               /\ run.sent \in {"True", "False"}

\* the run has come to step 4 with a digest, and the step has ended: it
\* returned, it raised, or the user interrupted it after it had called
\* send_email
SendEnded ==
    /\ run.digest # ""
    /\ \/ Called("send")
       \/ run.pc = "interrupted" /\ mail.pc # "idle"

\* C28 as stated: for a digest that is not empty, a send step that does not
\* deliver the mail (incomplete settings, send_paper_digest returning False
\* or raising) saves the digest to the local digest file and returns False;
\* a send step that delivers it returns True and saves nothing.
C28_Original ==
    SendEnded =>
        IF LastOutcome = "sent"
        THEN run.sent = "True" /\ digest_file = ""
        ELSE run.sent = "False" /\ digest_file = run.digest

\* C28 as amended: for a digest that is not empty, a send step that returns
\* without the mail delivered (incomplete settings, send_paper_digest
\* returning False or raising an Exception) has saved the digest to the local
\* digest file and returns False; a send step that delivers the mail and
\* returns, returns True and saves nothing; a send step that the user
\* interrupts does not return, and one whose local file cannot be written
\* raises and leaves no local copy.
C28_LocalCopy ==
    SendEnded =>
        IF run.pc = "interrupted" THEN run.sent = "none"
        ELSE IF run.result = "raised" THEN run.sent = "none" /\ digest_file = ""
        ELSE IF LastOutcome = "sent"
        THEN run.sent = "True" /\ digest_file = ""
        ELSE run.sent = "False" /\ digest_file = run.digest

\* C28 happens: with complete settings send_paper_digest raised before any
\* attempt, and the step saved the simple report and returned False
C28_Witness ==
    /\ Called("send") /\ run.pc = "done"
    /\ Complete(MailSettingsOf(config)) /\ mail = NoMail
    /\ run.sent = "False" /\ run.digest = "simple report"
    /\ digest_file = "simple report"

=============================================================================
